---- MODULE Spec2Model ----
(***************************************************************************)
(* Model of the usage-pacing simulator: the shared helpers (helpers.py),   *)
(* the step calibrators (step_algorithms.py) and the week simulators       *)
(* (simulate.py).                                                          *)
(*                                                                         *)
(* Numbers.  The program computes in binary floating point; the model      *)
(* computes in fixed point:                                                *)
(*   - times (t, sr, wr, elapsed, dt) are whole minutes;                   *)
(*   - usages (su, wu, targets) are thousandths of a percent               *)
(*     (100% = 100000);                                                    *)
(*   - dimensionless numbers (signals, deviations, gains, fractions) are   *)
(*     thousandths (1.0 = 1000);                                           *)
(*   - rates (velocity, optimal) are thousandths of a percent per minute.  *)
(* Divisions round toward zero.  A threshold of the program finer than     *)
(* one thousandth (1e-6) is the smallest positive fixed-point number.      *)
(***************************************************************************)
EXTENDS Integers, Sequences, FiniteSets, TLC

\* ------------------------------------------------------------------------
\* Fixed-point arithmetic
\* ------------------------------------------------------------------------

\* one unit (1.0) of a dimensionless number; one percent of a usage
ONE == 1000

\* 100.0 percent as a usage
PCT100 == 100 * ONE

Abs(x) == IF x < 0 THEN -x ELSE x

Max(a, b) == IF a >= b THEN a ELSE b

Min(a, b) == IF a <= b THEN a ELSE b

\* a / b for b > 0, rounded toward zero
Div(a, b) == IF a >= 0 THEN a \div b ELSE -((-a) \div b)

\* the product of a number and a dimensionless fixed-point factor
Mul(a, f) == Div(a * f, ONE)

\* max(lo, min(hi, x))
Clamp(lo, hi, x) == Max(lo, Min(hi, x))

\* an absent value (None) and a present one
None == << >>

Some(x) == << x >>

IsNone(o) == Len(o) = 0

Val(o) == o[1]

\* tanh at 0, 0.25, 0.5, ... 4.0, in thousandths
TanhTable ==
    << 0, 245, 462, 635, 762, 848, 905, 941, 964, 978, 987, 992, 995,
       997, 998, 999, 1000 >>

\* tanh of a >= 0: linear interpolation of TanhTable, 1.0 from 4.0 on
TanhPos(a) ==
    IF a >= 4000 THEN 1000
    ELSE TanhTable[a \div 250 + 1]
         + ((TanhTable[a \div 250 + 2] - TanhTable[a \div 250 + 1]) * (a % 250)) \div 250

\* math.tanh: linear interpolation of TanhTable, odd, 1.0 from 4.0 on
Tanh(x) == IF x < 0 THEN -TanhPos(-x) ELSE TanhPos(x)

RECURSIVE SqrtIter(_, _, _)
\* the largest r in lo..hi with r * r <= n
SqrtIter(n, lo, hi) ==
    IF lo >= hi THEN lo
    ELSE LET mid == (lo + hi + 1) \div 2
         IN  IF mid * mid <= n THEN SqrtIter(n, mid, hi)
             ELSE SqrtIter(n, lo, mid - 1)

\* x ** 0.5 of a number of squared thousandths, in thousandths
Sqrt(n) == SqrtIter(n, 0, 46340)

\* ------------------------------------------------------------------------
\* constants.py
\* ------------------------------------------------------------------------

SESSION_MIN == 300

WEEK_MIN == 10080

POLL_INTERVAL == 5

\* 0.3
EMA_ALPHA == 300

BOUNDARY_JUMP == 30

GAP_THRESHOLD == 15

\* 0.12 weekly% per session%
EXCHANGE_RATE == 120

\* 10:00 and 20:00, in minutes of the day
ACTIVE_START == 600

ACTIVE_END == 1200

\* 0.7
COMPLIANCE_GAIN == 700

\* 0.003
FATIGUE_RATE == 3

\* 0.85
FATIGUE_FLOOR == 850

\* 0.9
FATIGUE_SAT == 900

N_MW_WEEKS == 8

\* Poll(t, su, sr, wu, wr)
Poll(t, su, sr, wu, wr) == [t |-> t, su |-> su, sr |-> sr, wu |-> wu, wr |-> wr]

\* ------------------------------------------------------------------------
\* helpers.py
\* ------------------------------------------------------------------------

\* detect_boundary with both comparisons inclusive
detect_boundary_inclusive(poll, prev) ==
    IF IsNone(prev) THEN TRUE
    ELSE IF poll.sr - Val(prev).sr >= BOUNDARY_JUMP THEN TRUE
    ELSE IF (poll.t - Val(prev).t) >= Val(prev).sr THEN TRUE
    ELSE FALSE

\* a detector that reports the first poll it is given and no other
detect_boundary_first_only(poll, prev) == IsNone(prev)

\* prev is None or Some(poll)
detect_boundary(poll, prev) ==
    IF IsNone(prev) THEN TRUE
    ELSE IF poll.sr - Val(prev).sr > BOUNDARY_JUMP THEN TRUE
    ELSE IF (poll.t - Val(prev).t) > Val(prev).sr THEN TRUE
    ELSE FALSE

RECURSIVE ActiveLoop(_, _, _)
\* the while loop of active_hours_in_range; total is in minutes
ActiveLoop(cursor, end_min, total) ==
    IF ~(cursor < end_min) THEN total
    ELSE LET day_base == (cursor \div 1440) * 1440
             w_open   == day_base + ACTIVE_START
             w_close  == day_base + ACTIVE_END
             next_day == day_base + 1440
             seg_end  == Min(end_min, next_day)
             o_start  == Max(cursor, w_open)
             o_end    == Min(seg_end, w_close)
             add      == IF o_end > o_start THEN o_end - o_start ELSE 0
         IN  ActiveLoop(next_day, end_min, total + add)

\* active time in [start_min, end_min), in minutes (the program: hours)
active_hours_in_range(start_min, end_min) == ActiveLoop(start_min, end_min, 0)

weekly_expected_of(ae, at) ==
    IF at > 0 THEN Min(PCT100, Div(ae * PCT100, at)) ELSE 0

weekly_expected(poll) ==
    weekly_expected_of(
        active_hours_in_range(poll.t - (WEEK_MIN - poll.wr), poll.t),
        active_hours_in_range(poll.t - (WEEK_MIN - poll.wr), poll.t + poll.wr))

\* None when fewer than 0.5 active hours (30 minutes) have elapsed
weekly_projected_of(poll, ae, ar) ==
    IF ae < 30 THEN None
    ELSE Some(poll.wu + Div(poll.wu * ar, ae))

weekly_projected(poll) ==
    weekly_projected_of(
        poll,
        active_hours_in_range(poll.t - (WEEK_MIN - poll.wr), poll.t),
        active_hours_in_range(poll.t, poll.t + poll.wr))

\* the rest of weekly_deviation, from the expected and the projected usage
weekly_deviation_of(poll, exp, proj) ==
    IF ~IsNone(proj)
    THEN Tanh(2 * (Div(Div(exp - poll.wu, 100), 2)
                   + Div(Div(PCT100 - Val(proj), 100), 2)))
    ELSE Tanh(2 * Div(exp - poll.wu, 100))

weekly_deviation(poll) ==
    IF poll.wr <= 0 THEN 0
    ELSE weekly_deviation_of(poll, weekly_expected(poll), weekly_projected(poll))

\* 100.0 * max(0.1, min(1.0, 1.0 + deviation)), a usage
session_target(deviation) == 100 * Max(100, Min(ONE, ONE + deviation))

\* a pass of ema_velocity that blends the first valid pair with a rate of 0
EmaPassFromZero(session_polls, j, ema) ==
    LET dt == session_polls[j].t - session_polls[j - 1].t
    IN  IF dt <= 0 \/ dt > GAP_THRESHOLD THEN ema
        ELSE Some(Div(EMA_ALPHA * Div(session_polls[j].su - session_polls[j - 1].su, dt)
                      + (ONE - EMA_ALPHA) * (IF IsNone(ema) THEN 0 ELSE Val(ema)), ONE))

\* one pass of the for loop of ema_velocity, at index j
EmaPass(session_polls, j, ema) ==
    LET dt == session_polls[j].t - session_polls[j - 1].t
    IN  IF dt <= 0 \/ dt > GAP_THRESHOLD THEN ema
        ELSE IF IsNone(ema)
        THEN Some(Div(session_polls[j].su - session_polls[j - 1].su, dt))
        ELSE Some(Div(EMA_ALPHA * Div(session_polls[j].su - session_polls[j - 1].su, dt)
                      + (ONE - EMA_ALPHA) * Val(ema), ONE))

RECURSIVE EmaLoop(_, _, _, _)
RECURSIVE EmaRest(_, _, _, _)
\* the for loop of ema_velocity over the indices lo..hi in ascending order,
\* entered with ema: the passes over the lower half of the range, then
\* those over the upper half
EmaLoop(session_polls, lo, hi, ema) ==
    IF lo > hi THEN ema
    ELSE IF lo = hi THEN EmaPass(session_polls, lo, ema)
    ELSE EmaRest(session_polls, (lo + hi) \div 2 + 1, hi,
                 EmaLoop(session_polls, lo, (lo + hi) \div 2, ema))

\* the passes over lo..hi, entered with what the passes before them left
EmaRest(session_polls, lo, hi, ema) ==
    IF IsNone(ema) THEN EmaLoop(session_polls, lo, hi, None)
    ELSE EmaLoop(session_polls, lo, hi, Some(Val(ema)))

ema_velocity(session_polls) ==
    IF Len(session_polls) < 2 THEN None
    ELSE EmaLoop(session_polls, 2, Len(session_polls), None)

\* RateRatio without the final clamp to [-1, 1]
RateRatioUnclamped(poll, velocity, optimal) ==
    LET elapsed == SESSION_MIN - poll.sr
    IN  IF IsNone(velocity) /\ elapsed < 5 THEN 0
        ELSE LET v   == IF IsNone(velocity) THEN Div(poll.su, Max(elapsed, 1))
                        ELSE Val(velocity)
                 vel == Max(v, 0)
             IN  IF optimal < 1 THEN (IF vel > 0 THEN ONE ELSE 0)
                 ELSE Div((vel - optimal) * ONE, optimal)

\* RateRatio that returns 0 whenever the optimal rate is below 1e-6
RateRatioNoBudgetIsZero(poll, velocity, optimal) ==
    LET elapsed == SESSION_MIN - poll.sr
    IN  IF IsNone(velocity) /\ elapsed < 5 THEN 0
        ELSE LET v   == IF IsNone(velocity) THEN Div(poll.su, Max(elapsed, 1))
                        ELSE Val(velocity)
                 vel == Max(v, 0)
             IN  IF optimal < 1 THEN 0
                 ELSE Clamp(-ONE, ONE, Div((vel - optimal) * ONE, optimal))

\* the rate-ratio formula shared by rate_calibrator and the steppers, from
\* the optimal rate on: velocity is None or Some(rate)
RateRatio(poll, velocity, optimal) ==
    LET elapsed == SESSION_MIN - poll.sr
    IN  IF IsNone(velocity) /\ elapsed < 5 THEN 0
        ELSE LET v   == IF IsNone(velocity) THEN Div(poll.su, Max(elapsed, 1))
                        ELSE Val(velocity)
                 vel == Max(v, 0)
             IN  IF optimal < 1 THEN (IF vel > 0 THEN ONE ELSE 0)
                 ELSE Clamp(-ONE, ONE, Div((vel - optimal) * ONE, optimal))

\* min(max((tgt - su) / tau, 0), max((100 - su) / tau, 0)), tau = max(sr, 0.1)
OptimalRate(poll, tgt) ==
    LET tau == Max(poll.sr, 1)
    IN  Min(Max(Div(tgt - poll.su, tau), 0), Max(Div(PCT100 - poll.su, tau), 0))

rate_calibrator(poll, velocity) ==
    LET dev == weekly_deviation(poll)
        tgt == session_target(dev)
    IN  IF poll.sr <= 0 THEN 0
        ELSE RateRatio(poll, velocity, OptimalRate(poll, tgt))

\* su / max(elapsed, 0.1): elapsed is in whole minutes, so the floor 0.1 is
\* taken exactly when elapsed <= 0
OverElapsed(su, elapsed) == IF elapsed >= 1 THEN Div(su, elapsed) ELSE su * 10

\* poll.sr / SESSION_MIN
SFrac(poll) == Div(poll.sr * ONE, SESSION_MIN)

\* ------------------------------------------------------------------------
\* step_algorithms.py: calibrator instances
\* ------------------------------------------------------------------------

FixedAlgos ==
    { "No Feedback", "Current", "Path A", "Path B", "Holt", "AlphaBeta", "PID",
      "MultiBurn", "PACE", "Gradient", "Cascade", "TriBlend", "PB+Pipe",
      "SoftThrot" }

\* STEP_ALGORITHMS
STEP_ALGORITHMS == FixedAlgos \cup { "Adaptive" }

PRIOR_GAIN == 300

PRIOR_DZ == 250

GAIN_FLOOR == 10

GAIN_CAP == 1500

WARMUP_N == 20

ALPHA_GAIN == 80

ALPHA_BL == 100

ALPHA_VAR == 50

MAX_DELTA_C == 200

NOISE_FLOOR == 5

DZ_STEP == 5

DZ_MIN == 50

DZ_MAX == 800

DZ_WINDOW == 120

SIGNAL_CAP == 850

MAX_DELAY == 8

DELAY_BUF_SIZE == 60

\* the session-scoped fields of every class, as their __init__ sets them
\* (AdaptiveStep._init_session for the Adaptive calibrator)
SessionInit ==
    [ session_polls |-> << >>, prev |-> None, ema |-> None,
      s |-> None, b |-> 0,
      x |-> 0, v |-> None, last_t |-> None,
      integral |-> 0, prev_error |-> 0,
      lam |-> ONE, m |-> ONE, cum_grad_sq |-> 0,
      poll_counter |-> 0,
      zone |-> "ok", prev_output |-> 0,
      prev_signal |-> 0, signal_history |-> << >> ]

\* CascadeStep.__init__: the outer loop's fields
CascadeInit == [ outer_integral |-> 0, dynamic_target |-> PCT100 ]

\* AdaptiveStep._init_learned
LearnedInit ==
    [ gain |-> PRIOR_GAIN, dead_zone |-> PRIOR_DZ, confidence |-> 0,
      baseline_rate |-> 300, gain_obs_count |-> 0, gain_variance |-> 100,
      estimated_delay |-> 1, delay_buf |-> << >> ]

SessionFields == DOMAIN SessionInit

CascadeFields == DOMAIN CascadeInit

LearnedFields == DOMAIN LearnedInit

\* a freshly constructed calibrator (every class's __init__)
NewCal ==
    [ f \in SessionFields \cup CascadeFields \cup LearnedFields |->
        IF f \in SessionFields THEN SessionInit[f]
        ELSE IF f \in CascadeFields THEN CascadeInit[f]
        ELSE LearnedInit[f] ]

\* c with the fields of r overwritten
Overwrite(c, r) == [ f \in DOMAIN c |-> IF f \in DOMAIN r THEN r[f] ELSE c[f] ]

\* the fields of c named in fs
Project(c, fs) == [ f \in fs |-> c[f] ]

\* a reset() that also runs _init_learned
ResetForgetsLearned(algo, c) ==
    IF algo = "Adaptive" THEN NewCal
    ELSE IF algo \in { "No Feedback", "Path B" } THEN c
    ELSE Overwrite(c, SessionInit)

\* a reset() that clears the windows and the estimates but leaves the last
\* poll in place
ResetKeepsPrev(algo, c) ==
    IF algo \in { "No Feedback", "Path B" } THEN c
    ELSE IF algo = "Cascade"
         THEN [ c EXCEPT !.session_polls = << >>, !.dynamic_target = PCT100,
                         !.poll_counter = 0 ]
         ELSE [ Overwrite(c, SessionInit) EXCEPT !.prev = c.prev ]

\* reset() of each class
Reset(algo, c) ==
    CASE algo \in { "No Feedback", "Path B" } -> c
      [] algo \in { "Current", "Path A", "SoftThrot" } ->
            [ c EXCEPT !.session_polls = << >>, !.prev = None, !.ema = None ]
      [] algo = "Holt" ->
            [ c EXCEPT !.prev = None, !.session_polls = << >>, !.s = None, !.b = 0 ]
      [] algo = "AlphaBeta" ->
            [ c EXCEPT !.prev = None, !.x = 0, !.v = None, !.last_t = None ]
      [] algo = "PID" ->
            [ c EXCEPT !.prev = None, !.integral = 0, !.prev_error = 0 ]
      [] algo \in { "MultiBurn", "TriBlend" } ->
            [ c EXCEPT !.prev = None, !.session_polls = << >> ]
      [] algo = "PACE" ->
            [ c EXCEPT !.prev = None, !.session_polls = << >>, !.lam = ONE,
                       !.cum_grad_sq = 0 ]
      [] algo = "Gradient" ->
            [ c EXCEPT !.prev = None, !.session_polls = << >>, !.m = ONE,
                       !.cum_grad_sq = 0 ]
      [] algo = "Cascade" ->
            \* outer_integral persists
            [ c EXCEPT !.prev = None, !.session_polls = << >>,
                       !.dynamic_target = PCT100, !.poll_counter = 0 ]
      [] algo = "PB+Pipe" ->
            [ c EXCEPT !.prev = None, !.zone = "ok", !.prev_output = 0 ]
      [] algo = "Adaptive" ->
            \* _init_session
            [ c EXCEPT !.session_polls = << >>, !.prev = None, !.ema = None,
                       !.prev_signal = 0, !.signal_history = << >> ]

\* a boundary block that clears the windows but keeps the velocity estimates
\* and the integrator
OnBoundaryKeepsVelocity(algo, c, poll) ==
    IF ~detect_boundary(poll, c.prev) THEN c
    ELSE IF algo = "Adaptive"
         THEN [ Overwrite(c, SessionInit) EXCEPT !.ema = c.ema ]
         ELSE IF algo = "PB+Pipe" THEN [ c EXCEPT !.zone = "ok", !.prev_output = 0 ]
         ELSE [ c EXCEPT !.session_polls = << >>, !.poll_counter = 0,
                         !.lam = ONE, !.m = ONE, !.cum_grad_sq = 0 ]

\* a boundary block that leaves the Adaptive calibrator's signal history as
\* it is
OnBoundaryKeepsSignals(algo, c, poll) ==
    IF ~detect_boundary(poll, c.prev) THEN c
    ELSE IF algo = "Adaptive"
         THEN [ Overwrite(c, SessionInit) EXCEPT !.signal_history = c.signal_history ]
         ELSE IF algo = "AlphaBeta"
         THEN [ c EXCEPT !.x = poll.su, !.v = None, !.last_t = Some(poll.t) ]
         ELSE [ c EXCEPT !.session_polls = << >>, !.ema = None, !.s = None,
                         !.b = 0, !.integral = 0, !.prev_error = 0,
                         !.poll_counter = 0, !.zone = "ok", !.prev_output = 0,
                         !.lam = ONE, !.m = ONE, !.cum_grad_sq = 0 ]

\* a boundary block that leaves the PID integrator and the pipeline's held
\* output as they are
OnBoundaryKeepsIntegral(algo, c, poll) ==
    IF ~detect_boundary(poll, c.prev) THEN c
    ELSE IF algo = "Adaptive" THEN Overwrite(c, SessionInit)
         ELSE IF algo = "AlphaBeta"
         THEN [ c EXCEPT !.x = poll.su, !.v = None, !.last_t = Some(poll.t) ]
         ELSE [ c EXCEPT !.session_polls = << >>, !.ema = None, !.s = None,
                         !.b = 0, !.poll_counter = 0,
                         !.lam = ONE, !.m = ONE, !.cum_grad_sq = 0 ]

\* the `if detect_boundary(poll, self.prev):` block that opens step()
OnBoundary(algo, c, poll) ==
    IF ~detect_boundary(poll, c.prev) THEN c
    ELSE CASE algo \in { "No Feedback", "Path B" } -> c
           [] algo \in { "Current", "Path A", "SoftThrot" } ->
                 [ c EXCEPT !.session_polls = << >>, !.ema = None ]
           [] algo = "Holt" ->
                 [ c EXCEPT !.session_polls = << >>, !.s = None, !.b = 0 ]
           [] algo = "AlphaBeta" ->
                 [ c EXCEPT !.x = poll.su, !.v = None, !.last_t = Some(poll.t) ]
           [] algo = "PID" ->
                 [ c EXCEPT !.integral = 0, !.prev_error = 0 ]
           [] algo \in { "MultiBurn", "TriBlend" } ->
                 [ c EXCEPT !.session_polls = << >> ]
           [] algo = "PACE" ->
                 [ c EXCEPT !.session_polls = << >>, !.lam = ONE, !.cum_grad_sq = 0 ]
           [] algo = "Gradient" ->
                 [ c EXCEPT !.session_polls = << >>, !.m = ONE, !.cum_grad_sq = 0 ]
           [] algo = "Cascade" ->
                 [ c EXCEPT !.session_polls = << >>, !.poll_counter = 0 ]
           [] algo = "PB+Pipe" ->
                 [ c EXCEPT !.zone = "ok", !.prev_output = 0 ]
           [] algo = "Adaptive" -> Overwrite(c, SessionInit)

\* the incremental EMA without the gap test
EmaUpdateAnyGap(c, poll) ==
    IF Len(c.session_polls) >= 2
    THEN LET pp == c.session_polls[Len(c.session_polls) - 1]
             dt == poll.t - pp.t
         IN  IF 0 < dt
             THEN LET instant == Div(poll.su - pp.su, dt)
                  IN  IF IsNone(c.ema) THEN Some(instant)
                      ELSE Some(Div(EMA_ALPHA * instant + (ONE - EMA_ALPHA) * Val(c.ema), ONE))
             ELSE c.ema
    ELSE c.ema

\* the incremental EMA of CurrentStep, PathAStep, SoftThrottleStep and
\* AdaptiveStep: c.session_polls already ends with poll
EmaUpdate(c, poll) ==
    IF Len(c.session_polls) >= 2
    THEN LET pp == c.session_polls[Len(c.session_polls) - 1]
             dt == poll.t - pp.t
         IN  IF 0 < dt /\ dt <= GAP_THRESHOLD
             THEN LET instant == Div(poll.su - pp.su, dt)
                  IN  IF IsNone(c.ema) THEN Some(instant)
                      ELSE Some(Div(EMA_ALPHA * instant + (ONE - EMA_ALPHA) * Val(c.ema), ONE))
             ELSE c.ema
    ELSE c.ema

\* a step's result: the instance afterwards and the value returned
Ret(c, out) == [ c |-> c, out |-> out ]

\* c with poll appended to the session window
Append1(c, poll) == [ c EXCEPT !.session_polls = Append(@, poll) ]

StepNoFeedback(c, poll) == Ret(c, 0)

\* the EMA update and `self.prev = poll` of CurrentStep, PathAStep,
\* SoftThrottleStep and AdaptiveStep
WithEma(c, poll) == [ c EXCEPT !.ema = EmaUpdate(c, poll), !.prev = Some(poll) ]

\* `return rate_calibrator(poll, self.ema)`
CurrentOut(c, poll) ==
    IF poll.sr <= 0 THEN Ret(c, 0)
    ELSE Ret(c, RateRatio(poll, c.ema,
                          OptimalRate(poll, session_target(weekly_deviation(poll)))))

StepCurrent(c0, poll) ==
    CurrentOut(WithEma(Append1(OnBoundary("Current", c0, poll), poll), poll), poll)

\* PathAStep.step from the optimal rate on
PathAOut(c, poll, dev, optimal) ==
    LET elapsed == SESSION_MIN - poll.sr
        frac == Min(Div(elapsed * ONE, 60), ONE)
        velocity == IF IsNone(c.ema) THEN OverElapsed(poll.su, elapsed)
                    ELSE Div(frac * Val(c.ema)
                             + (ONE - frac) * OverElapsed(poll.su, elapsed), ONE)
        rate_cal == IF optimal < 1 THEN (IF Max(velocity, 0) > 0 THEN ONE ELSE 0)
                    ELSE Clamp(-ONE, ONE, Div((Max(velocity, 0) - optimal) * ONE, optimal))
    IN  IF poll.sr <= 0 THEN Ret(c, 0)
        ELSE IF IsNone(c.ema) /\ elapsed < 5 THEN Ret(c, 0)
        ELSE Ret(c, Clamp(-ONE, ONE,
                          Div(SFrac(poll) * rate_cal + (ONE - SFrac(poll)) * (-dev), ONE)))

\* PathAStep.step from the weekly deviation on
PathAFrom(c, poll, dev) ==
    PathAOut(c, poll, dev, OptimalRate(poll, session_target(dev)))

StepPathA(c0, poll) ==
    PathAFrom(WithEma(Append1(OnBoundary("Path A", c0, poll), poll), poll), poll,
              weekly_deviation(poll))

\* the raw blend of PathBStep and PBPipelineStep, before the final clamp
\* the blend of PathBStep from the session target on
PathBMix(poll, dev, tgt) ==
    LET elapsed == SESSION_MIN - poll.sr
        expected_su == Div(tgt * elapsed, SESSION_MIN)
        session_err == Div((poll.su - expected_su) * ONE, Max(tgt, ONE))
    IN  Div(SFrac(poll) * session_err + (ONE - SFrac(poll)) * (-dev), ONE)

\* the blend of PathBStep from the weekly deviation on
PathBFrom(poll, dev) == PathBMix(poll, dev, session_target(dev))

PathBBlend(poll) == PathBFrom(poll, weekly_deviation(poll))

StepPathB(c, poll) ==
    IF poll.sr <= 0 THEN Ret(c, 0)
    ELSE IF SESSION_MIN - poll.sr < 5 THEN Ret(c, 0)
    ELSE Ret(c, Clamp(-ONE, ONE, PathBBlend(poll)))

\* the level and trend update of HoltStep, and `self.prev = poll`
HoltUpdate(c1, poll) ==
    LET n  == Len(c1.session_polls)
        dt == poll.t - c1.session_polls[n - 1].t
        iv == Div(poll.su - c1.session_polls[n - 1].su, dt)
        s_new == Div(300 * iv + 700 * (Val(c1.s) + c1.b), ONE)
    IN  IF n >= 2 /\ 0 < dt /\ dt <= GAP_THRESHOLD
        THEN IF IsNone(c1.s)
             THEN [ c1 EXCEPT !.s = Some(iv), !.b = 0, !.prev = Some(poll) ]
             ELSE [ c1 EXCEPT !.b = Div(100 * (s_new - Val(c1.s)) + 900 * c1.b, ONE),
                              !.s = Some(s_new), !.prev = Some(poll) ]
        ELSE [ c1 EXCEPT !.prev = Some(poll) ]

\* `return rate_calibrator(poll, self.s)`
HoltOut(c, poll) == Ret(c, rate_calibrator(poll, c.s))

StepHolt(c0, poll) ==
    HoltOut(HoltUpdate(Append1(OnBoundary("Holt", c0, poll), poll), poll), poll)

\* the filter update of AlphaBetaStep on a poll that is no boundary
AlphaBetaUpdate(c0, poll) ==
    LET dt == IF ~IsNone(c0.last_t) THEN poll.t - Val(c0.last_t) ELSE 0
        valid == 0 < dt /\ dt <= GAP_THRESHOLD
        x_pred == IF IsNone(c0.v) THEN c0.x ELSE c0.x + Val(c0.v) * dt
        residual == poll.su - x_pred
    IN  IF valid /\ ~IsNone(c0.v)
        THEN [ c0 EXCEPT !.x = x_pred + Div(200 * residual, ONE),
                         !.v = Some(Val(c0.v) + Div(residual, 10 * dt)),
                         !.last_t = Some(poll.t), !.prev = Some(poll) ]
        ELSE IF valid /\ IsNone(c0.v)
        THEN [ c0 EXCEPT !.x = x_pred + Div(200 * residual, ONE),
                         !.v = Some(Div(residual, 10 * dt)),
                         !.last_t = Some(poll.t), !.prev = Some(poll) ]
        ELSE [ c0 EXCEPT !.x = poll.su, !.v = None,
                         !.last_t = Some(poll.t), !.prev = Some(poll) ]

\* `return rate_calibrator(poll, self.v)`
AlphaBetaOut(c, poll) == Ret(c, rate_calibrator(poll, c.v))

StepAlphaBeta(c0, poll) ==
    IF detect_boundary(poll, c0.prev)
    THEN AlphaBetaOut([ OnBoundary("AlphaBeta", c0, poll) EXCEPT !.prev = Some(poll) ],
                      poll)
    ELSE AlphaBetaOut(AlphaBetaUpdate(c0, poll), poll)

\* error of PIDStep: (expected_su - poll.su) / max(tgt, 1.0)
PIDError(poll, tgt) ==
    Div((Div(tgt * (SESSION_MIN - poll.sr), SESSION_MIN) - poll.su) * ONE,
        Max(tgt, ONE))

\* PIDStep.step from the integral on
PIDSet(c1, error, integral) ==
    Ret([ c1 EXCEPT !.integral = integral, !.prev_error = error ],
        Clamp(-ONE, ONE,
              -Div(1500 * error + 5 * integral
                   + 2000 * Div(error - c1.prev_error, POLL_INTERVAL), ONE)))

\* PIDStep.step from the error on
PIDOut(c1, poll, error) ==
    IF poll.sr <= 0 THEN Ret(c1, 0)
    ELSE PIDSet(c1, error,
                Clamp(-5 * ONE, 5 * ONE, c1.integral + error * POLL_INTERVAL))

StepPID(c0, poll) ==
    PIDOut([ OnBoundary("PID", c0, poll) EXCEPT !.prev = Some(poll) ], poll,
           PIDError(poll, session_target(weekly_deviation(poll))))

RECURSIVE LastSuBefore(_, _, _, _)
RECURSIVE LastSuOr(_, _, _, _, _)
\* the inner loop of MultiBurnStep over the indices lo..hi: the usage the
\* last poll of the range with sp.t <= t_start assigns to su_at_start, None
\* when no poll of the range assigns it
LastSuBefore(session_polls, lo, hi, t_start) ==
    IF lo > hi THEN None
    ELSE IF lo = hi
    THEN (IF session_polls[lo].t <= t_start THEN Some(session_polls[lo].su) ELSE None)
    ELSE LastSuOr(LastSuBefore(session_polls, (lo + hi) \div 2 + 1, hi, t_start),
                  session_polls, lo, (lo + hi) \div 2, t_start)

\* what the later polls assigned, else what the polls lo..hi assign
LastSuOr(later, session_polls, lo, hi, t_start) ==
    IF IsNone(later) THEN LastSuBefore(session_polls, lo, hi, t_start) ELSE later

\* su_at_start from what the loop assigned: 0.0 when it assigned nothing
SuOrZero(assigned) == IF IsNone(assigned) THEN 0 ELSE Val(assigned)

\* su_at_start after the inner loop of MultiBurnStep
SuAtStart(session_polls, t_start) ==
    SuOrZero(LastSuBefore(session_polls, 1, Len(session_polls), t_start))

\* the larger in magnitude of a window's burn signal and the best so far
BurnPick(burn_signal, best_signal) ==
    IF Abs(burn_signal) > Abs(best_signal) THEN burn_signal ELSE best_signal

BurnWindow(c, poll, tgt, elapsed, w, best_signal) ==
    IF w > elapsed \/ w < POLL_INTERVAL THEN best_signal
    ELSE IF Div(tgt * w, SESSION_MIN) < 1 THEN best_signal
    ELSE BurnPick(
            Tanh(Div(3 * (Div((poll.su - SuAtStart(c.session_polls, poll.t - w)) * ONE,
                              Div(tgt * w, SESSION_MIN)) - ONE), 2)),
            best_signal)

\* MultiBurnStep.step from the session target on
MultiBurnOut(c, poll, dev, tgt) ==
    LET elapsed == SESSION_MIN - poll.sr
        best_signal ==
            BurnWindow(c, poll, tgt, elapsed, elapsed,
                BurnWindow(c, poll, tgt, elapsed, 90,
                    BurnWindow(c, poll, tgt, elapsed, 30, 0)))
    IN  IF poll.sr <= 0 THEN Ret(c, 0)
        ELSE IF elapsed < 5 THEN Ret(c, 0)
        ELSE Ret(c, Clamp(-ONE, ONE,
                          Div(700 * best_signal, ONE)
                          + Div(300 * Mul(ONE - SFrac(poll), -dev), ONE)))

\* MultiBurnStep.step from the weekly deviation on
MultiBurnFrom(c, poll, dev) == MultiBurnOut(c, poll, dev, session_target(dev))

StepMultiBurn(c0, poll) ==
    MultiBurnFrom([ Append1(OnBoundary("MultiBurn", c0, poll), poll)
                        EXCEPT !.prev = Some(poll) ],
                  poll, weekly_deviation(poll))

\* velocity - target_rate of PACEStep and GradientStep
\* velocity of PACEStep and GradientStep, from ema_velocity's result
PacingVelocity(poll, ev) ==
    Max(IF IsNone(ev) THEN OverElapsed(poll.su, SESSION_MIN - poll.sr) ELSE Val(ev), 0)

PacingGradient(c, poll) ==
    PacingVelocity(poll, ema_velocity(c.session_polls))
    - Max(Div(session_target(weekly_deviation(poll)) - poll.su, Max(poll.sr, 1)), 0)

\* PACEStep.step from the new multiplier on
PACESet(c, cum, lam) ==
    Ret([ c EXCEPT !.cum_grad_sq = cum, !.lam = lam ], Clamp(-ONE, ONE, lam - ONE))

\* PACEStep.step from the accumulated squared gradient on
PACEFrom(c, gradient, cum) ==
    PACESet(c, cum, Max(10, c.lam + Mul(gradient, Div(ONE * ONE, ONE + Sqrt(cum)))))

\* PACEStep.step from the gradient on
PACEOut(c, gradient) == PACEFrom(c, gradient, c.cum_grad_sq + gradient * gradient)

\* PACEStep.step after the boundary block
PACEStepFrom(c, poll) ==
    IF poll.sr <= 0 THEN Ret(c, 0)
    ELSE IF SESSION_MIN - poll.sr < 5 THEN Ret(c, 0)
    ELSE PACEOut(c, PacingGradient(c, poll))

StepPACE(c0, poll) ==
    PACEStepFrom([ Append1(OnBoundary("PACE", c0, poll), poll) EXCEPT !.prev = Some(poll) ],
                 poll)

\* GradientStep.step from the new multiplier on
GradientSet(c, cum, m) ==
    Ret([ c EXCEPT !.cum_grad_sq = cum, !.m = m ],
        Clamp(-ONE, ONE, Tanh(2 * (m - ONE))))

\* GradientStep.step from the accumulated squared gradient on
GradientFrom(c, gradient, cum) ==
    GradientSet(c, cum, Max(10, c.m + Mul(gradient, Div(500 * ONE, ONE + Sqrt(cum)))))

\* GradientStep.step from the gradient on
GradientOut(c, gradient) == GradientFrom(c, gradient, c.cum_grad_sq + gradient * gradient)

\* GradientStep.step after the boundary block
GradientStepFrom(c, poll) ==
    IF poll.sr <= 0 THEN Ret(c, 0)
    ELSE IF SESSION_MIN - poll.sr < 5 THEN Ret(c, 0)
    ELSE GradientOut(c, PacingGradient(c, poll))

StepGradient(c0, poll) ==
    GradientStepFrom([ Append1(OnBoundary("Gradient", c0, poll), poll)
                           EXCEPT !.prev = Some(poll) ],
                     poll)

\* the outer loop of CascadeStep, run when poll_counter % 6 == 0
\* the outer loop of CascadeStep from the new integral on
CascadeSet(c, error, outer_integral) ==
    [ c EXCEPT !.outer_integral = outer_integral,
               !.dynamic_target =
                   Max(10 * ONE, Min(PCT100,
                       100 * (ONE + Div(800 * error + 3 * outer_integral, ONE)))) ]

\* the outer loop of CascadeStep from the weekly error on
CascadeFrom(c, error) ==
    CascadeSet(c, error, Clamp(-5 * ONE, 5 * ONE, c.outer_integral + error))

\* the outer loop of CascadeStep, run when poll_counter % 6 == 0
CascadeOuter(c, poll) == CascadeFrom(c, Div(weekly_expected(poll) - poll.wu, 100))

\* the inner loop of CascadeStep
CascadeInner(c, poll) ==
    IF poll.sr <= 0 THEN Ret(c, 0)
    ELSE Ret(c, RateRatio(poll, ema_velocity(c.session_polls),
                          OptimalRate(poll, c.dynamic_target)))

\* CascadeStep.step after the boundary block
CascadeStepFrom(c, poll) ==
    CascadeInner(IF c.poll_counter % 6 = 0 THEN CascadeOuter(c, poll) ELSE c, poll)

StepCascade(c0, poll) ==
    CascadeStepFrom([ Append1(OnBoundary("Cascade", c0, poll), poll)
                          EXCEPT !.poll_counter = @ + 1, !.prev = Some(poll) ],
                    poll)

\* velocity_sig of TriBlendStep
TriBlendVelocity(velocity, optimal) ==
    IF ~IsNone(velocity) /\ optimal >= 1
    THEN Clamp(-ONE, ONE, Div((Val(velocity) - optimal) * ONE, optimal))
    ELSE 0

\* the weights of positional, velocity_sig and budget_sig
TriBlendWeights(poll) ==
    IF SESSION_MIN - poll.sr < 30 THEN << 200, 600, 200 >>
    ELSE IF SFrac(poll) > 500 THEN << 300, 500, 200 >>
    ELSE << 200, 200, 600 >>

\* the weighted sum of TriBlendStep
TriBlendMix(w, positional, velocity_sig, budget_sig) ==
    Div(w[1] * positional + w[2] * velocity_sig + w[3] * budget_sig, ONE)

\* TriBlendStep.step from the session target on
TriBlendOut(c, poll, dev, tgt) ==
    IF poll.sr <= 0 THEN Ret(c, 0)
    ELSE Ret(c, Clamp(-ONE, ONE,
            TriBlendMix(
                TriBlendWeights(poll),
                Clamp(-ONE, ONE,
                      Div((poll.su - Div(tgt * (SESSION_MIN - poll.sr), SESSION_MIN)) * ONE,
                          Max(tgt, ONE))),
                TriBlendVelocity(ema_velocity(c.session_polls),
                                 Div(tgt - poll.su, Max(poll.sr, 1))),
                -dev)))

\* TriBlendStep.step from the weekly deviation on
TriBlendFrom(c, poll, dev) == TriBlendOut(c, poll, dev, session_target(dev))

StepTriBlend(c0, poll) ==
    TriBlendFrom([ Append1(OnBoundary("TriBlend", c0, poll), poll)
                       EXCEPT !.prev = Some(poll) ],
                 poll, weekly_deviation(poll))

\* the dead-zone stage of PBPipelineStep
PipeDeadZone(raw) ==
    IF Abs(raw) < 80 THEN 0
    ELSE LET sign == IF raw > 0 THEN 1 ELSE -1
         IN  sign * Div((Abs(raw) - 80) * ONE, 920)

\* the hysteresis stage with one threshold: a zone is left as soon as the
\* value is back within the entry threshold
PipeHysteresisOneThreshold(zone, dz) ==
    IF dz > 150 /\ zone # "slow" THEN [ zone |-> "fast", hz |-> dz ]
    ELSE IF dz < -150 /\ zone # "fast" THEN [ zone |-> "slow", hz |-> dz ]
    ELSE [ zone |-> "ok", hz |-> 0 ]

\* the hysteresis stage of PBPipelineStep: the new zone and the value passed on
PipeHysteresis(zone, dz) ==
    IF zone = "ok"
    THEN IF dz > 150 THEN [ zone |-> "fast", hz |-> dz ]
         ELSE IF dz < -150 THEN [ zone |-> "slow", hz |-> dz ]
         ELSE [ zone |-> "ok", hz |-> 0 ]
    ELSE IF zone = "fast"
    THEN IF dz < 50 THEN [ zone |-> "ok", hz |-> 0 ]
         ELSE [ zone |-> "fast", hz |-> dz ]
    ELSE IF dz > -50 THEN [ zone |-> "ok", hz |-> 0 ]
         ELSE [ zone |-> "slow", hz |-> dz ]

\* raw of PBPipelineStep: the clamped Path B blend
PipeRaw(poll) == Clamp(-ONE, ONE, PathBBlend(poll))

\* smoothing with equal weights for the new and the held value
PipeSmoothEven(hz, prev_output) == Div(500 * hz + 500 * prev_output, ONE)

\* the output smoothing of PBPipelineStep
PipeSmooth(hz, prev_output) == Div(150 * hz + 850 * prev_output, ONE)

\* PBPipelineStep.step from the smoothed output on
PBPipeSet(c, zone, output) ==
    Ret([ c EXCEPT !.zone = zone, !.prev_output = output ], Clamp(-ONE, ONE, output))

\* PBPipelineStep.step from the hysteresis stage's result on
PBPipeOut(c, h) == PBPipeSet(c, h.zone, PipeSmooth(h.hz, c.prev_output))

\* PBPipelineStep.step after the boundary block
PBPipeFrom(c, poll) ==
    IF poll.sr <= 0 THEN Ret(c, 0)
    ELSE IF SESSION_MIN - poll.sr < 5 THEN Ret(c, 0)
    ELSE PBPipeOut(c, PipeHysteresis(c.zone, PipeDeadZone(PipeRaw(poll))))

StepPBPipe(c0, poll) ==
    PBPipeFrom([ OnBoundary("PB+Pipe", c0, poll) EXCEPT !.prev = Some(poll) ], poll)

\* SoftThrottleStep.step from the velocity on
SoftThrotRatio(c, vel, optimal) ==
    IF optimal < 1 THEN Ret(c, IF vel > 0 THEN ONE ELSE 0)
    ELSE Ret(c, Clamp(-ONE, ONE, Tanh(Div(3 * (Div(vel * ONE, optimal) - ONE), 2))))

\* SoftThrottleStep.step from the optimal rate on
SoftThrotOut(c, poll, optimal) ==
    IF poll.sr <= 0 THEN Ret(c, 0)
    ELSE IF IsNone(c.ema) /\ SESSION_MIN - poll.sr < 5 THEN Ret(c, 0)
    ELSE SoftThrotRatio(
            c,
            Max(IF IsNone(c.ema) THEN OverElapsed(poll.su, SESSION_MIN - poll.sr)
                ELSE Val(c.ema), 0),
            optimal)

StepSoftThrot(c0, poll) ==
    SoftThrotOut(WithEma(Append1(OnBoundary("SoftThrot", c0, poll), poll), poll), poll,
                 OptimalRate(poll, session_target(weekly_deviation(poll))))

\* ------------------------------------------------------------------------
\* step_algorithms.py: AdaptiveStep
\* ------------------------------------------------------------------------

\* a / b for b # 0, rounded toward zero
SDiv(a, b) == IF b > 0 THEN Div(a, b) ELSE Div(-a, -b)

\* seq[-d]
FromEnd(seq, d) == seq[Len(seq) - d + 1]

AdaptivePaceError(c, poll) ==
    LET dev == weekly_deviation(poll)
        tgt == session_target(dev)
        elapsed == SESSION_MIN - poll.sr
        optimal == OptimalRate(poll, tgt)
        vel == IF IsNone(c.ema) THEN OverElapsed(poll.su, elapsed) ELSE Val(c.ema)
    IN  IF poll.sr <= 0 THEN 0
        ELSE IF IsNone(c.ema) /\ elapsed < 5 THEN 0
        ELSE Max(vel, 0) - optimal

\* a boost applied only to raw signals below the dead zone itself
AdaptiveBoostBelowDeadZone(raw0, boost) ==
    IF 0 < Abs(raw0) /\ 11 * Abs(raw0) < 10 * boost
    THEN (IF raw0 > 0 THEN 1 ELSE -1) * boost
    ELSE raw0

\* the dead-zone boost of _to_signal
AdaptiveBoost(raw0, boost) ==
    IF 0 < Abs(raw0) /\ Abs(raw0) < boost
    THEN (IF raw0 > 0 THEN 1 ELSE -1) * boost
    ELSE raw0

\* error / (baseline_rate * eff_gain)
AdaptiveScaled(c, error, eff_gain) ==
    Div(error * ONE, Max(Mul(c.baseline_rate, eff_gain), 1))

\* the raw signal without the noise floor
AdaptiveRawWithoutFloor(c, error) ==
    AdaptiveBoost(
        AdaptiveScaled(c, error,
            Div(c.confidence * c.gain + (ONE - c.confidence) * PRIOR_GAIN, ONE)),
        Div(c.dead_zone * 11, 10))

AdaptiveRaw(c, error) ==
    IF Abs(error) < NOISE_FLOOR THEN 0
    ELSE AdaptiveBoost(
            AdaptiveScaled(c, error,
                Div(c.confidence * c.gain + (ONE - c.confidence) * PRIOR_GAIN, ONE)),
            Div(c.dead_zone * 11, 10))

\* _to_signal without the final clamp to SIGNAL_CAP
AdaptiveToSignalUncapped(c, error) ==
    LET raw == AdaptiveRaw(c, error)
        delta == Clamp(-MAX_DELTA_C, MAX_DELTA_C, raw - c.prev_signal)
    IN  c.prev_signal + delta

\* _to_signal with the final clamp at 1 instead of SIGNAL_CAP
AdaptiveToSignalCappedAtOne(c, error) ==
    LET raw == AdaptiveRaw(c, error)
        delta == Clamp(-MAX_DELTA_C, MAX_DELTA_C, raw - c.prev_signal)
    IN  Clamp(-ONE, ONE, c.prev_signal + delta)

\* _to_signal without the limit on the change from the previous signal
AdaptiveToSignalUnlimited(c, error) ==
    Clamp(-SIGNAL_CAP, SIGNAL_CAP, AdaptiveRaw(c, error))

AdaptiveToSignal(c, error) ==
    LET raw == AdaptiveRaw(c, error)
        delta == Clamp(-MAX_DELTA_C, MAX_DELTA_C, raw - c.prev_signal)
    IN  Clamp(-SIGNAL_CAP, SIGNAL_CAP, c.prev_signal + delta)

RECURSIVE SumRates(_, _, _)
\* sum(rates) over the entries lo..hi of the delay buffer, as the sum over
\* the lower half plus the sum over the upper half
SumRates(buf, lo, hi) ==
    IF lo > hi THEN 0
    ELSE IF lo = hi THEN buf[lo].rate
    ELSE SumRates(buf, lo, (lo + hi) \div 2) + SumRates(buf, (lo + hi) \div 2 + 1, hi)

\* one pass of the inner loop of _estimate_delay: what an entry adds to
\* score and to n
LagTerm(rate, sig, mean_rate) ==
    IF Abs(sig) > 100
    THEN [ score |-> -(rate - mean_rate) * sig, n |-> 1 ]
    ELSE [ score |-> 0, n |-> 0 ]

\* score and n over two adjacent runs of entries
LagJoin(a, b) == [ score |-> a.score + b.score, n |-> a.n + b.n ]

RECURSIVE LagScore(_, _, _, _, _)
\* the inner loop of _estimate_delay for lag index d over the entries
\* lo..hi: the sum of -(rate - mean_rate) * s and the number of entries with
\* abs(s) > 0.1, summed by halves as SumRates is
LagScore(buf, d, mean_rate, lo, hi) ==
    IF lo > hi THEN [ score |-> 0, n |-> 0 ]
    ELSE IF lo = hi THEN LagTerm(buf[lo].rate, buf[lo].sigs[d], mean_rate)
    ELSE LagJoin(LagScore(buf, d, mean_rate, lo, (lo + hi) \div 2),
                 LagScore(buf, d, mean_rate, (lo + hi) \div 2 + 1, hi))

\* the better of the best lag so far and lag d with the score r; best is
\* [lag, score, found], found telling best_score from -inf
LagPick(best, d, r) ==
    IF r.n >= 5 /\ (~best.found \/ Div(r.score, r.n) > best.score)
    THEN [ lag |-> d, score |-> Div(r.score, r.n), found |-> TRUE ]
    ELSE best

RECURSIVE BestLag(_, _, _, _)
\* the outer loop of _estimate_delay from lag d on
BestLag(buf, mean_rate, d, best) ==
    IF d > MAX_DELAY THEN best
    ELSE BestLag(buf, mean_rate, d + 1,
                 LagPick(best, d, LagScore(buf, d, mean_rate, 1, Len(buf))))

\* the best lag found is kept whatever its score
DelayOfAnyScore(c, best) == IF best.found THEN best.lag ELSE c.estimated_delay

\* the lag _estimate_delay keeps, from the best lag found
DelayOf(c, best) == IF best.found /\ best.score > 0 THEN best.lag ELSE c.estimated_delay

\* _estimate_delay: the new estimated_delay
EstimateDelay(c) ==
    IF Len(c.delay_buf) < 20 THEN c.estimated_delay
    ELSE DelayOf(c,
            BestLag(c.delay_buf,
                    Div(SumRates(c.delay_buf, 1, Len(c.delay_buf)), Len(c.delay_buf)),
                    1, [ lag |-> c.estimated_delay, score |-> 0, found |-> FALSE ]))

\* the gain update of _learn from the new variance on
GainSet(c, gain, count, variance) ==
    [ c EXCEPT !.gain = gain, !.gain_obs_count = count,
               !.gain_variance = variance,
               !.confidence = Mul(Min(ONE, Div(count * ONE, WARMUP_N)),
                                  Div(ONE * ONE, ONE + variance)) ]

\* the gain update of _learn from the new gain on
GainFold(c, obs_gain, gain) ==
    GainSet(c, gain, c.gain_obs_count + 1,
            Div((ONE - ALPHA_VAR) * c.gain_variance
                + ALPHA_VAR * Div((obs_gain - gain) * (obs_gain - gain), ONE), ONE))

\* the gain update of _learn from the observed gain on
GainFrom(c, obs_gain) ==
    GainFold(c, obs_gain,
             Max(GAIN_FLOOR, Div((ONE - ALPHA_GAIN) * c.gain + ALPHA_GAIN * obs_gain, ONE)))

\* the gain update of _learn. -response / bl is kept within +-2.0: beyond
\* it the quotient by past_signal (at most 0.85 in magnitude) is cut by the
\* floor or the cap
GainUpdate(c, observed_rate, past_signal) ==
    GainFrom(c,
        Clamp(GAIN_FLOOR, GAIN_CAP,
              SDiv(Clamp(-2 * ONE, 2 * ONE,
                         Div(-(observed_rate - c.baseline_rate) * ONE,
                             Max(Abs(c.baseline_rate), 10))) * ONE,
                   past_signal)))

\* a dead-zone update that takes any response against the signal, however
\* small, as a response
DeadZoneUpdateAnyResponse(c, observed_rate, past_signal) ==
    IF Abs(Abs(past_signal) - c.dead_zone) < DZ_WINDOW
    THEN IF (observed_rate - c.baseline_rate) * past_signal < 0
         THEN [ c EXCEPT !.dead_zone = Max(DZ_MIN, c.dead_zone - DZ_STEP) ]
         ELSE [ c EXCEPT !.dead_zone = Min(DZ_MAX, c.dead_zone + DZ_STEP) ]
    ELSE c

\* the dead-zone update of _learn
DeadZoneUpdate(c, observed_rate, past_signal) ==
    IF Abs(Abs(past_signal) - c.dead_zone) < DZ_WINDOW
    THEN LET response == observed_rate - c.baseline_rate
             responded == response * past_signal < 0 /\ Abs(response) > 10
         IN  IF responded
             THEN [ c EXCEPT !.dead_zone = Max(DZ_MIN, c.dead_zone - DZ_STEP) ]
             ELSE [ c EXCEPT !.dead_zone = Min(DZ_MAX, c.dead_zone + DZ_STEP) ]
    ELSE c

\* _learn, from the point where the delay buffer is appended to
\* _learn from the signal of estimated_delay ticks ago on
LearnFrom(c2, observed_rate, past_signal) ==
    IF 2 * Abs(past_signal) < c2.dead_zone
    THEN [ c2 EXCEPT !.baseline_rate =
               Div((ONE - ALPHA_BL) * c2.baseline_rate + ALPHA_BL * observed_rate, ONE) ]
    ELSE IF Abs(past_signal) > c2.dead_zone
    THEN IF Abs(observed_rate - c2.baseline_rate) < 10 THEN c2
         ELSE DeadZoneUpdate(GainUpdate(c2, observed_rate, past_signal),
                             observed_rate, past_signal)
    ELSE DeadZoneUpdate(c2, observed_rate, past_signal)

\* _learn from the new estimated_delay on
LearnDelayed(c1, observed_rate, estimated_delay) ==
    LearnFrom([ c1 EXCEPT !.estimated_delay = estimated_delay ], observed_rate,
              FromEnd(c1.signal_history, estimated_delay))

\* _learn from the delay buffer's new content on
LearnBuffered(c1, observed_rate) == LearnDelayed(c1, observed_rate, EstimateDelay(c1))

\* a full delay buffer that drops the entry just appended
BufferPushDropsNewest(buf1) ==
    IF Len(buf1) > DELAY_BUF_SIZE THEN SubSeq(buf1, 1, DELAY_BUF_SIZE) ELSE buf1

\* the delay buffer with one more entry, cut to DELAY_BUF_SIZE
BufferPush(buf1) == IF Len(buf1) > DELAY_BUF_SIZE THEN Tail(buf1) ELSE buf1

\* _learn, from the point where the delay buffer is appended to
AdaptiveLearnBody(c0, observed_rate) ==
    LearnBuffered(
        [ c0 EXCEPT !.delay_buf =
            BufferPush(Append(@, [ rate |-> observed_rate,
                                   sigs |-> [ d \in 1..MAX_DELAY |->
                                                FromEnd(c0.signal_history, d) ] ])) ],
        observed_rate)

\* a learning step that takes a poll with the time of the poll before it as
\* one minute later
AdaptiveLearnSameTime(c, poll) ==
    LET n == Len(c.session_polls)
        pp == c.session_polls[n - 1]
        dt == poll.t - pp.t
    IN  IF n < 3 THEN c
        ELSE IF SESSION_MIN - poll.sr < 5 THEN c
        ELSE IF dt < 0 \/ dt > GAP_THRESHOLD THEN c
        ELSE IF Len(c.signal_history) < MAX_DELAY THEN c
        ELSE AdaptiveLearnBody(c, Div(poll.su - pp.su, Max(dt, 1)))

\* _learn: c.session_polls already ends with poll
AdaptiveLearn(c, poll) ==
    LET n == Len(c.session_polls)
        pp == c.session_polls[n - 1]
        dt == poll.t - pp.t
    IN  IF n < 3 THEN c
        ELSE IF SESSION_MIN - poll.sr < 5 THEN c
        ELSE IF dt <= 0 \/ dt > GAP_THRESHOLD THEN c
        ELSE IF Len(c.signal_history) < MAX_DELAY THEN c
        ELSE AdaptiveLearnBody(c, Div(poll.su - pp.su, dt))

\* `self.signal_history.append(signal); self.prev_signal = signal;
\* return signal`
AdaptiveEmit(c3, signal) ==
    Ret([ c3 EXCEPT !.signal_history = Append(@, signal), !.prev_signal = signal ],
        signal)

\* AdaptiveStep.step after _learn
AdaptiveOut(c3, poll) ==
    AdaptiveEmit(c3, AdaptiveToSignal(c3, AdaptivePaceError(c3, poll)))

StepAdaptive(c0, poll) ==
    AdaptiveOut(
        AdaptiveLearn(WithEma(Append1(OnBoundary("Adaptive", c0, poll), poll), poll),
                      poll),
        poll)

\* step() of the class registered under algo in STEP_ALGORITHMS
Step(algo, c, poll) ==
    CASE algo = "No Feedback" -> StepNoFeedback(c, poll)
      [] algo = "Current" -> StepCurrent(c, poll)
      [] algo = "Path A" -> StepPathA(c, poll)
      [] algo = "Path B" -> StepPathB(c, poll)
      [] algo = "Holt" -> StepHolt(c, poll)
      [] algo = "AlphaBeta" -> StepAlphaBeta(c, poll)
      [] algo = "PID" -> StepPID(c, poll)
      [] algo = "MultiBurn" -> StepMultiBurn(c, poll)
      [] algo = "PACE" -> StepPACE(c, poll)
      [] algo = "Gradient" -> StepGradient(c, poll)
      [] algo = "Cascade" -> StepCascade(c, poll)
      [] algo = "TriBlend" -> StepTriBlend(c, poll)
      [] algo = "PB+Pipe" -> StepPBPipe(c, poll)
      [] algo = "SoftThrot" -> StepSoftThrot(c, poll)
      [] algo = "Adaptive" -> StepAdaptive(c, poll)

\* ------------------------------------------------------------------------
\* batch_algorithms.py: the open-loop algorithms, each a loop over a list of
\* polls. An algorithm's operator is the body of its loop after the boundary
\* block: from the locals L and the poll p to the locals it leaves and the
\* value it appends to cals.
\* ------------------------------------------------------------------------

\* BATCH_ALGORITHMS
BATCH_ALGORITHMS ==
    { "Current", "Path A", "Path B", "Holt", "AlphaBeta", "PID", "MultiBurn",
      "PACE", "Gradient", "Cascade", "TriBlend", "PB+Pipe", "SoftThrot" }

\* the locals of the batch functions before their loops
BatchLocals ==
    [ session_polls |-> << >>, s |-> None, b |-> 0,
      x |-> 0, v |-> None, last_t |-> None,
      integral |-> 0, prev_error |-> 0,
      lam |-> ONE, m |-> ONE, cum_grad_sq |-> 0,
      outer_integral |-> 0, dynamic_target |-> PCT100, poll_counter |-> 0,
      zone |-> "ok", prev_output |-> 0 ]

\* `if detect_boundary(p, prev):` of each batch function, prev being
\* polls[i - 1], and the `session_polls.append(p)` of those that keep the
\* session's polls
BatchBoundary(aname, L, p, prev) ==
    LET hit == detect_boundary(p, prev)
        kept == IF hit THEN << >> ELSE L.session_polls
    IN  CASE aname \in { "Current", "Path A", "MultiBurn", "TriBlend", "SoftThrot" } ->
                [ L EXCEPT !.session_polls = Append(kept, p) ]
          [] aname = "Path B" -> L
          [] aname = "Holt" ->
                IF hit THEN [ L EXCEPT !.session_polls = << p >>, !.s = None, !.b = 0 ]
                ELSE [ L EXCEPT !.session_polls = Append(@, p) ]
          [] aname = "AlphaBeta" ->
                IF hit THEN [ L EXCEPT !.x = p.su, !.v = None, !.last_t = Some(p.t) ]
                ELSE L
          [] aname = "PID" ->
                IF hit THEN [ L EXCEPT !.integral = 0, !.prev_error = 0 ] ELSE L
          [] aname = "PACE" ->
                IF hit THEN [ L EXCEPT !.session_polls = << p >>, !.lam = ONE,
                                       !.cum_grad_sq = 0 ]
                ELSE [ L EXCEPT !.session_polls = Append(@, p) ]
          [] aname = "Gradient" ->
                IF hit THEN [ L EXCEPT !.session_polls = << p >>, !.m = ONE,
                                       !.cum_grad_sq = 0 ]
                ELSE [ L EXCEPT !.session_polls = Append(@, p) ]
          [] aname = "Cascade" ->
                IF hit THEN [ L EXCEPT !.session_polls = << p >>, !.poll_counter = 1 ]
                ELSE [ L EXCEPT !.session_polls = Append(@, p), !.poll_counter = @ + 1 ]
          [] aname = "PB+Pipe" ->
                IF hit THEN [ L EXCEPT !.zone = "ok", !.prev_output = 0 ] ELSE L

\* the rate ratio the batch functions compute in line:
\* `1.0 if vel > 1e-6 else 0.0` when optimal < 1e-6, else the clamped
\* (vel - optimal) / optimal
BatchRateCal(vel, optimal) ==
    IF optimal < 1 THEN (IF vel > 0 THEN ONE ELSE 0)
    ELSE Clamp(-ONE, ONE, Div((vel - optimal) * ONE, optimal))

\* velocity of run_current, run_cascade and run_soft_throttle: ema_velocity
\* of the session's polls, p.su / max(elapsed, 0.1) when there is none
BatchVelocity(L, p) ==
    LET velocity == ema_velocity(L.session_polls)
    IN  IF IsNone(velocity) THEN OverElapsed(p.su, SESSION_MIN - p.sr) ELSE Val(velocity)

run_current(L, p) ==
    LET tgt == session_target(weekly_deviation(p))
        tau == Max(p.sr, 1)
        optimal == Min(Max(Div(tgt - p.su, tau), 0), Max(Div(PCT100 - p.su, tau), 0))
    IN  IF p.sr <= 0 THEN Ret(L, 0)
        ELSE IF IsNone(ema_velocity(L.session_polls)) /\ SESSION_MIN - p.sr < 5
        THEN Ret(L, 0)
        ELSE Ret(L, BatchRateCal(Max(BatchVelocity(L, p), 0), optimal))

run_path_a(L, p) ==
    LET dev == weekly_deviation(p)
        tgt == session_target(dev)
        elapsed == SESSION_MIN - p.sr
        tau == Max(p.sr, 1)
        optimal == Min(Max(Div(tgt - p.su, tau), 0), Max(Div(PCT100 - p.su, tau), 0))
        raw_vel == ema_velocity(L.session_polls)
        avg_vel == OverElapsed(p.su, elapsed)
        frac == Min(Div(elapsed * ONE, 60), ONE)
        velocity == IF IsNone(raw_vel) THEN avg_vel
                    ELSE Div(frac * Val(raw_vel) + (ONE - frac) * avg_vel, ONE)
        rate_cal == BatchRateCal(Max(velocity, 0), optimal)
        s_frac == Div(p.sr * ONE, SESSION_MIN)
    IN  IF p.sr <= 0 THEN Ret(L, 0)
        ELSE IF IsNone(raw_vel) /\ elapsed < 5 THEN Ret(L, 0)
        ELSE Ret(L, Clamp(-ONE, ONE, Div(s_frac * rate_cal + (ONE - s_frac) * (-dev), ONE)))

\* the blend of run_path_b, which run_pb_pipeline repeats, before the clamp,
\* from dev and tgt on
BatchPathBFrom(p, dev, tgt) ==
    LET elapsed == SESSION_MIN - p.sr
        expected_su == Div(tgt * elapsed, SESSION_MIN)
        session_err == Div((p.su - expected_su) * ONE, Max(tgt, ONE))
        s_frac == Div(p.sr * ONE, SESSION_MIN)
    IN  Div(s_frac * session_err + (ONE - s_frac) * (-dev), ONE)

\* `dev = weekly_deviation(p)`, `tgt = session_target(dev)` and the blend
BatchPathBDev(p, dev) == BatchPathBFrom(p, dev, session_target(dev))

BatchPathB(p) == BatchPathBDev(p, weekly_deviation(p))

run_path_b(L, p) ==
    IF p.sr <= 0 THEN Ret(L, 0)
    ELSE IF SESSION_MIN - p.sr < 5 THEN Ret(L, 0)
    ELSE Ret(L, Clamp(-ONE, ONE, BatchPathB(p)))

run_holt(L, p) ==
    LET n  == Len(L.session_polls)
        pp == L.session_polls[n - 1]
        dt == p.t - pp.t
        iv == Div(p.su - pp.su, dt)
        s_new == Div(300 * iv + 700 * (Val(L.s) + L.b), ONE)
        L2 == IF n >= 2 /\ 0 < dt /\ dt <= GAP_THRESHOLD
              THEN IF IsNone(L.s) THEN [ L EXCEPT !.s = Some(iv), !.b = 0 ]
                   ELSE [ L EXCEPT !.b = Div(100 * (s_new - Val(L.s)) + 900 * L.b, ONE),
                                   !.s = Some(s_new) ]
              ELSE L
    IN  Ret(L2, rate_calibrator(p, L2.s))

\* run_alpha_beta: hit is detect_boundary(p, prev), on which the boundary
\* block appends rate_calibrator(p, v) and continues
run_alpha_beta(L, p, hit) ==
    LET dt == IF ~IsNone(L.last_t) THEN p.t - Val(L.last_t) ELSE 0
        valid == 0 < dt /\ dt <= GAP_THRESHOLD
        x_pred == IF IsNone(L.v) THEN L.x ELSE L.x + Val(L.v) * dt
        residual == p.su - x_pred
        L2 == IF valid /\ ~IsNone(L.v)
              THEN [ L EXCEPT !.x = x_pred + Div(200 * residual, ONE),
                              !.v = Some(Val(L.v) + Div(residual, 10 * dt)),
                              !.last_t = Some(p.t) ]
              ELSE IF valid /\ IsNone(L.v)
              THEN [ L EXCEPT !.x = x_pred + Div(200 * residual, ONE),
                              !.v = Some(Div(residual, 10 * dt)),
                              !.last_t = Some(p.t) ]
              ELSE [ L EXCEPT !.x = p.su, !.v = None, !.last_t = Some(p.t) ]
    IN  IF hit THEN Ret(L, rate_calibrator(p, L.v))
        ELSE Ret(L2, rate_calibrator(p, L2.v))

\* run_pid from the error on
BatchPidFrom(L, error, integral) ==
    Ret([ L EXCEPT !.integral = integral, !.prev_error = error ],
        Clamp(-ONE, ONE,
              -Div(1500 * error + 5 * integral
                   + 2000 * Div(error - L.prev_error, POLL_INTERVAL), ONE)))

\* run_pid from the target on
BatchPidOf(L, p, tgt) ==
    LET expected_su == Div(tgt * (SESSION_MIN - p.sr), SESSION_MIN)
        error == Div((expected_su - p.su) * ONE, Max(tgt, ONE))
    IN  BatchPidFrom(L, error,
                     Clamp(-5 * ONE, 5 * ONE, L.integral + error * POLL_INTERVAL))

run_pid(L, p) ==
    IF p.sr <= 0 THEN Ret(L, 0)
    ELSE BatchPidOf(L, p, session_target(weekly_deviation(p)))

\* su_at_start after `for sp in session_polls: if sp.t <= t_start:
\* su_at_start = sp.su`: the usage of the last poll at or before t_start
BatchSuAtStart(session_polls, t_start) ==
    LET at == { j \in 1..Len(session_polls) : session_polls[j].t <= t_start }
    IN  IF at = { } THEN 0
        ELSE session_polls[CHOOSE j \in at : \A k \in at : k <= j].su

\* one pass of `for w in windows:` of run_multi_burn
BatchBurn(L, p, tgt, elapsed, w, best_signal) ==
    LET expected_usage == Div(tgt * w, SESSION_MIN)
        actual_usage == p.su - BatchSuAtStart(L.session_polls, p.t - w)
        burn_rate == Div(actual_usage * ONE, expected_usage)
        burn_signal == Tanh(Div(3 * (burn_rate - ONE), 2))
    IN  IF w > elapsed \/ w < POLL_INTERVAL THEN best_signal
        ELSE IF expected_usage < 1 THEN best_signal
        ELSE IF Abs(burn_signal) > Abs(best_signal) THEN burn_signal
        ELSE best_signal

run_multi_burn(L, p) ==
    LET dev == weekly_deviation(p)
        tgt == session_target(dev)
        elapsed == SESSION_MIN - p.sr
        s_frac == Div(p.sr * ONE, SESSION_MIN)
        best_signal ==
            BatchBurn(L, p, tgt, elapsed, elapsed,
                BatchBurn(L, p, tgt, elapsed, 90,
                    BatchBurn(L, p, tgt, elapsed, 30, 0)))
    IN  IF p.sr <= 0 THEN Ret(L, 0)
        ELSE IF elapsed < 5 THEN Ret(L, 0)
        ELSE Ret(L, Clamp(-ONE, ONE,
                          Div(700 * best_signal, ONE)
                          + Div(300 * Mul(ONE - s_frac, -dev), ONE)))

\* gradient of run_pace and run_gradient: velocity - target_rate
BatchGradient(L, p) ==
    LET tgt == session_target(weekly_deviation(p))
    IN  Max(BatchVelocity(L, p), 0) - Max(Div(tgt - p.su, Max(p.sr, 1)), 0)

\* run_pace from the gradient on
BatchPaceFrom(L, gradient, cum_grad_sq) ==
    LET step == Div(ONE * ONE, ONE + Sqrt(cum_grad_sq))
        lam == Max(10, L.lam + Mul(gradient, step))
    IN  Ret([ L EXCEPT !.cum_grad_sq = cum_grad_sq, !.lam = lam ],
            Clamp(-ONE, ONE, lam - ONE))

\* `cum_grad_sq += gradient * gradient` and what follows it in run_pace
BatchPaceOf(L, gradient) ==
    BatchPaceFrom(L, gradient, L.cum_grad_sq + gradient * gradient)

run_pace(L, p) ==
    IF p.sr <= 0 THEN Ret(L, 0)
    ELSE IF SESSION_MIN - p.sr < 5 THEN Ret(L, 0)
    ELSE BatchPaceOf(L, BatchGradient(L, p))

\* run_gradient from the gradient on
BatchGradientFrom(L, gradient, cum_grad_sq) ==
    LET eta == Div(500 * ONE, ONE + Sqrt(cum_grad_sq))
        m == Max(10, L.m + Mul(gradient, eta))
    IN  Ret([ L EXCEPT !.cum_grad_sq = cum_grad_sq, !.m = m ],
            Clamp(-ONE, ONE, Tanh(2 * (m - ONE))))

\* `cum_grad_sq += gradient * gradient` and what follows it in run_gradient
BatchGradientOf(L, gradient) ==
    BatchGradientFrom(L, gradient, L.cum_grad_sq + gradient * gradient)

run_gradient(L, p) ==
    IF p.sr <= 0 THEN Ret(L, 0)
    ELSE IF SESSION_MIN - p.sr < 5 THEN Ret(L, 0)
    ELSE BatchGradientOf(L, BatchGradient(L, p))

run_cascade(L, p) ==
    LET error == Div(weekly_expected(p) - p.wu, 100)
        outer_integral == Clamp(-5 * ONE, 5 * ONE, L.outer_integral + error)
        L2 == IF L.poll_counter % 6 = 0
              THEN [ L EXCEPT !.outer_integral = outer_integral,
                              !.dynamic_target =
                                  Max(10 * ONE, Min(PCT100,
                                      100 * (ONE + Div(800 * error + 3 * outer_integral,
                                                       ONE)))) ]
              ELSE L
        tau == Max(p.sr, 1)
        optimal == Min(Max(Div(L2.dynamic_target - p.su, tau), 0),
                       Max(Div(PCT100 - p.su, tau), 0))
    IN  IF p.sr <= 0 THEN Ret(L2, 0)
        ELSE IF IsNone(ema_velocity(L.session_polls)) /\ SESSION_MIN - p.sr < 5
        THEN Ret(L2, 0)
        ELSE Ret(L2, BatchRateCal(Max(BatchVelocity(L, p), 0), optimal))

run_triple_blend(L, p) ==
    LET dev == weekly_deviation(p)
        tgt == session_target(dev)
        elapsed == SESSION_MIN - p.sr
        s_frac == Div(p.sr * ONE, SESSION_MIN)
        expected_su == Div(tgt * elapsed, SESSION_MIN)
        positional == Clamp(-ONE, ONE, Div((p.su - expected_su) * ONE, Max(tgt, ONE)))
        velocity == ema_velocity(L.session_polls)
        optimal == Div(tgt - p.su, Max(p.sr, 1))
        velocity_sig == IF ~IsNone(velocity) /\ optimal >= 1
                        THEN Clamp(-ONE, ONE, Div((Val(velocity) - optimal) * ONE, optimal))
                        ELSE 0
        w == IF elapsed < 30 THEN << 200, 600, 200 >>
             ELSE IF s_frac > 500 THEN << 300, 500, 200 >>
             ELSE << 200, 200, 600 >>
        raw == Div(w[1] * positional + w[2] * velocity_sig + w[3] * (-dev), ONE)
    IN  IF p.sr <= 0 THEN Ret(L, 0)
        ELSE Ret(L, Clamp(-ONE, ONE, raw))

\* run_pb_pipeline from the smoothing on: zone is the zone the hysteresis
\* leaves, hz the value it passes
BatchPipeSmooth(L, zone, hz) ==
    Ret([ L EXCEPT !.zone = zone,
                   !.prev_output = Div(150 * hz + 850 * L.prev_output, ONE) ],
        Clamp(-ONE, ONE, Div(150 * hz + 850 * L.prev_output, ONE)))

\* run_pb_pipeline from the hysteresis on
BatchPipeZone(L, dz) ==
    IF L.zone = "ok"
    THEN (IF dz > 150 THEN BatchPipeSmooth(L, "fast", dz)
          ELSE IF dz < -150 THEN BatchPipeSmooth(L, "slow", dz)
          ELSE BatchPipeSmooth(L, "ok", 0))
    ELSE IF L.zone = "fast"
    THEN (IF dz < 50 THEN BatchPipeSmooth(L, "ok", 0)
          ELSE BatchPipeSmooth(L, "fast", dz))
    ELSE (IF dz > -50 THEN BatchPipeSmooth(L, "ok", 0)
          ELSE BatchPipeSmooth(L, "slow", dz))

\* run_pb_pipeline from the dead zone on
BatchPipeFrom(L, raw) ==
    IF Abs(raw) < 80 THEN BatchPipeZone(L, 0)
    ELSE BatchPipeZone(L, (IF raw > 0 THEN 1 ELSE -1) * Div((Abs(raw) - 80) * ONE, 920))

run_pb_pipeline(L, p) ==
    IF p.sr <= 0 THEN Ret(L, 0)
    ELSE IF SESSION_MIN - p.sr < 5 THEN Ret(L, 0)
    ELSE BatchPipeFrom(L, Clamp(-ONE, ONE, BatchPathB(p)))

run_soft_throttle(L, p) ==
    LET tgt == session_target(weekly_deviation(p))
        tau == Max(p.sr, 1)
        optimal == Min(Max(Div(tgt - p.su, tau), 0), Max(Div(PCT100 - p.su, tau), 0))
        vel == Max(BatchVelocity(L, p), 0)
    IN  IF p.sr <= 0 THEN Ret(L, 0)
        ELSE IF IsNone(ema_velocity(L.session_polls)) /\ SESSION_MIN - p.sr < 5
        THEN Ret(L, 0)
        ELSE IF optimal < 1 THEN Ret(L, IF vel > 0 THEN ONE ELSE 0)
        ELSE Ret(L, Clamp(-ONE, ONE, Tanh(Div(3 * (Div(vel * ONE, optimal) - ONE), 2))))

\* the body of the loop of BATCH_ALGORITHMS[aname] after its boundary block
BatchBody(aname, L, p, hit) ==
    CASE aname = "Current" -> run_current(L, p)
      [] aname = "Path A" -> run_path_a(L, p)
      [] aname = "Path B" -> run_path_b(L, p)
      [] aname = "Holt" -> run_holt(L, p)
      [] aname = "AlphaBeta" -> run_alpha_beta(L, p, hit)
      [] aname = "PID" -> run_pid(L, p)
      [] aname = "MultiBurn" -> run_multi_burn(L, p)
      [] aname = "PACE" -> run_pace(L, p)
      [] aname = "Gradient" -> run_gradient(L, p)
      [] aname = "Cascade" -> run_cascade(L, p)
      [] aname = "TriBlend" -> run_triple_blend(L, p)
      [] aname = "PB+Pipe" -> run_pb_pipeline(L, p)
      [] aname = "SoftThrot" -> run_soft_throttle(L, p)

\* a batch function that is not running
BatchOff == [ on |-> FALSE, n |-> 0, prev |-> None, L |-> BatchLocals, cal |-> 0 ]

\* BATCH_ALGORITHMS[aname](polls) entered: i polls of the list are done,
\* prev is polls[i - 1], cal the last element of cals
BatchNew == [ BatchOff EXCEPT !.on = TRUE ]

\* one iteration of `for i, p in enumerate(polls):` of BATCH_ALGORITHMS[aname]
BatchIter(aname, B, p) ==
    LET hit == detect_boundary(p, B.prev)
        r == BatchBody(aname, BatchBoundary(aname, B.L, p, B.prev), p, hit)
    IN  [ on |-> TRUE, n |-> B.n + 1, prev |-> Some(p), L |-> r.c, cal |-> r.out ]

\* ------------------------------------------------------------------------
\* A calibrator instance driven by a caller: polls are fed to step() one at
\* a time and reset() is called between them.
\* ------------------------------------------------------------------------

VARIABLES
    algo,       \* the name of the calibrator's class in STEP_ALGORITHMS
    cal,        \* the calibrator instance
    out,        \* the value its last step() returned
    prevOut,    \* the value the step() before that returned
    pre,        \* the instance as it was before the last call
    mid,        \* the instance after the boundary block of the last step()
    lastPoll,   \* the poll of the last step(): None or Some(poll)
    lastOp,     \* "new", "step" or "reset"
    twin,       \* an instance constructed at the last session boundary and
                \* fed the polls of the current session only
    twinOut,    \* the value the twin's last step() returned
    scen,       \* the week the polls come from: start time, weekly usage,
                \* usage per regular tick
    nWarm,      \* regular ticks fed so far
    nFree,      \* freely chosen calls made so far
    nBound      \* session boundaries seen by the instance so far

calVars ==
    << algo, cal, out, prevOut, pre, mid, lastPoll, lastOp, twin, twinOut,
       scen, nWarm, nFree, nBound >>

VARIABLES
    dbPrev,     \* detect_boundary's argument prev: None or Some(poll)
    dbPoll,     \* detect_boundary's argument poll
    dbResult    \* None, or Some(the value detect_boundary returned)

dbVars == << dbPrev, dbPoll, dbResult >>

VARIABLES
    sim,        \* the locals of simulate_week / simulate_week_closed_loop
    simCfg,     \* the arguments of the run and the inputs it is given
    simObs,     \* what the last tick did: the polls emitted, the draws made
    simFresh    \* a calibrator constructed when simulate_week_closed_loop was
                \* last called on a used instance, given the same polls, and
                \* the value its last step() returned

simVars == << sim, simCfg, simObs, simFresh >>

VARIABLES
    run,        \* the locals of run_closed_loop / run_open_loop
    batch       \* the locals of BATCH_ALGORITHMS[algo](polls), called on the
                \* polls the instance is fed

runVars == << run, batch >>

vars == << calVars, dbVars, simVars, runVars >>

\* the locals of simulate_week_closed_loop before the first tick
SimNew ==
    [ tick |-> 0, wu |-> 0, su |-> 0, sr |-> 0, in_session |-> FALSE,
      session_num |-> 0, last_session_end |-> -9999,
      session_cals |-> << >>, consec_sat |-> 0, n_polls |-> 0,
      polls |-> << >>, cals |-> << >>,
      sessions |-> << >>, \* session_num as each poll of polls was emitted
      pc |-> "start",     \* "start": not called yet, "loop", "done": returned
      week |-> 1,         \* the number of this call on the calibrator
      steps |-> 0,        \* step() calls made by this call
      resets |-> 0 ]      \* reset() calls made by this call

\* the shadow calibrator before any call
FreshNew == [ c |-> NewCal, out |-> 0 ]

\* nothing observed yet
ObsNew ==
    [ emitted |-> FALSE, poll |-> None, prev_poll |-> None,
      poll_session |-> 0, prev_poll_session |-> 0,
      applied |-> FALSE, started |-> FALSE,
      raw_cal |-> 0, looked |-> FALSE, rate_mult |-> ONE, base_delta |-> 0,
      sat_before |-> 0, su_applied |-> 0 ]

\* no detect_boundary call is under way
DbIdle == dbPrev = None /\ dbPoll = Poll(0, 0, 0, 0, 0) /\ dbResult = None

\* no simulation is under way
SimIdle ==
    /\ sim = SimNew
    /\ simCfg = [ loop |-> "none" ]
    /\ simObs = ObsNew
    /\ simFresh = FreshNew

\* neither run_closed_loop nor run_open_loop has been called
RunIdle == run = [ pc |-> "none" ] /\ batch = BatchOff

\* regular ticks a run may start with
MaxWarm == 6

\* freely chosen calls of a run
MaxFree == 3

\* regular ticks a run of the Adaptive calibrator may start with
MaxWarmAdaptive == 10

\* freely chosen calls of a run of the Adaptive calibrator
MaxFreeAdaptive == 2

\* the weeks polls are drawn from: Monday 10:00 with nothing used, Thursday
\* 12:00 far ahead of pace, Thursday 12:00 behind pace
Scenarios ==
    { [ t0 |-> 600,  wu0 |-> 0,     tick |-> 2000 ],
      [ t0 |-> 5040, wu0 |-> 80000, tick |-> 0 ],
      [ t0 |-> 5040, wu0 |-> 10000, tick |-> 500 ] }

\* session usage added by a freely chosen regular poll: 0, 3% and 40%
FreeDeltas == { 0, 3000, 40000 }

\* the first poll of a run: a session that starts at the scenario's time
FirstPoll == Poll(scen.t0, 0, SESSION_MIN, scen.wu0, WEEK_MIN - scen.t0)

\* the poll dt minutes after p in the same session, with d more session usage
\* and the weekly usage that goes with it
Later(p, dt, d) ==
    LET su == Min(PCT100, p.su + d)
    IN  Poll(p.t + dt, su, Max(0, p.sr - dt),
             Min(PCT100, p.wu + Mul(su - p.su, EXCHANGE_RATE)), p.wr - dt)

\* the first poll of a new session that begins POLL_INTERVAL after p
Jump(p) == Poll(p.t + POLL_INTERVAL, 0, SESSION_MIN, p.wu, p.wr - POLL_INTERVAL)

\* a poll after a silence longer than p's remaining session time, 100
\* minutes into a session that has used 30%
Gap(p) ==
    LET dt == p.sr + POLL_INTERVAL
    IN  Poll(p.t + dt, 30000, 200, Min(PCT100, p.wu + 3600), p.wr - dt)

\* step(poll) on the instance, and on its twin
\* what a step(poll) leaves behind: r is the instance's step, r2 the twin's
FeedSet(poll, boundary, r, r2) ==
    /\ pre' = cal
    /\ mid' = OnBoundary(algo, cal, poll)
    /\ cal' = r.c
    /\ prevOut' = out
    /\ out' = r.out
    /\ lastPoll' = Some(poll)
    /\ lastOp' = "step"
    /\ twin' = r2.c
    /\ twinOut' = r2.out
    /\ nBound' = IF boundary THEN nBound + 1 ELSE nBound
    /\ batch' = IF batch.on THEN BatchIter(algo, batch, poll) ELSE batch
    /\ UNCHANGED << algo, scen, dbVars, simVars, run >>

\* step(poll) on the instance, and on its twin
Feed(poll) ==
    FeedSet(poll, detect_boundary(poll, cal.prev), Step(algo, cal, poll),
            Step(algo, IF detect_boundary(poll, cal.prev) THEN NewCal ELSE twin, poll))

WarmBound == IF algo = "Adaptive" THEN MaxWarmAdaptive ELSE MaxWarm

FreeBound == IF algo = "Adaptive" THEN MaxFreeAdaptive ELSE MaxFree

\* freely chosen calls follow the first poll or a full run of regular ticks
CanChoose ==
    /\ ~IsNone(lastPoll)
    /\ nFree < FreeBound
    /\ nWarm \in { 1, WarmBound }

\* the run's first polls: a session polled every POLL_INTERVAL
FeedWarm ==
    /\ nFree = 0
    /\ nWarm < WarmBound
    /\ Feed(IF IsNone(lastPoll) THEN FirstPoll
            ELSE Later(Val(lastPoll), POLL_INTERVAL, scen.tick))
    /\ nWarm' = nWarm + 1
    /\ UNCHANGED nFree

\* a regular poll with a freely chosen usage
FeedTick ==
    /\ CanChoose
    /\ \E d \in FreeDeltas : Feed(Later(Val(lastPoll), POLL_INTERVAL, d))
    /\ nFree' = nFree + 1
    /\ UNCHANGED nWarm

\* a poll after more than GAP_THRESHOLD minutes, in the same session
FeedStale ==
    /\ CanChoose
    /\ Val(lastPoll).sr > 20
    /\ Feed(Later(Val(lastPoll), 20, 3000))
    /\ nFree' = nFree + 1
    /\ UNCHANGED nWarm

\* a poll that repeats the reading before it: the same time and usage
FeedSame ==
    /\ CanChoose
    /\ Feed(Later(Val(lastPoll), 0, 0))
    /\ nFree' = nFree + 1
    /\ UNCHANGED nWarm

\* the first poll of a new session
FeedJump ==
    /\ CanChoose
    /\ Feed(Jump(Val(lastPoll)))
    /\ nFree' = nFree + 1
    /\ UNCHANGED nWarm

\* a poll after a silence that spans the end of the session
FeedGap ==
    /\ CanChoose
    /\ Feed(Gap(Val(lastPoll)))
    /\ nFree' = nFree + 1
    /\ UNCHANGED nWarm

\* reset()
CallReset ==
    /\ lastOp = "step"
    /\ CanChoose
    /\ pre' = cal
    /\ mid' = cal
    /\ cal' = Reset(algo, cal)
    /\ lastOp' = "reset"
    /\ nFree' = nFree + 1
    /\ UNCHANGED << algo, out, prevOut, lastPoll, twin, twinOut, scen, nWarm, nBound >>
    /\ UNCHANGED << dbVars, simVars, runVars >>

\* a new instance, no call made on it
CalFresh(algos) ==
    /\ algo \in algos
    /\ scen \in Scenarios
    /\ cal = NewCal
    /\ pre = NewCal
    /\ mid = NewCal
    /\ twin = NewCal
    /\ out = 0
    /\ prevOut = 0
    /\ twinOut = 0
    /\ lastPoll = None
    /\ lastOp = "new"
    /\ nWarm = 0
    /\ nFree = 0
    /\ nBound = 0
    /\ DbIdle
    /\ SimIdle

CalInit(algos) == CalFresh(algos) /\ RunIdle

CalNext ==
    \/ FeedWarm
    \/ FeedTick
    \/ FeedStale
    \/ FeedSame
    \/ FeedJump
    \/ FeedGap
    \/ CallReset

InitCal == CalInit(STEP_ALGORITHMS)

SpecCal == InitCal /\ [][CalNext]_vars

InitFixed == CalInit(FixedAlgos)

\* the fixed-strategy calibrators only
SpecFixed == InitFixed /\ [][CalNext]_vars

InitAdaptive == CalInit({ "Adaptive" })

\* the Adaptive calibrator only
SpecAdaptive == InitAdaptive /\ [][CalNext]_vars

\* a new instance of each step algorithm and, for those in BATCH_ALGORITHMS,
\* the batch function of the same name on the same polls
BatchInit ==
    /\ CalFresh(STEP_ALGORITHMS \ { "No Feedback" })
    /\ run = [ pc |-> "none" ]
    /\ batch = IF algo \in BATCH_ALGORITHMS THEN BatchNew ELSE BatchOff

\* polls only: the list a batch function is given holds no reset
BatchNext ==
    \/ FeedWarm
    \/ FeedTick
    \/ FeedStale
    \/ FeedSame
    \/ FeedJump
    \/ FeedGap

SpecBatch == BatchInit /\ [][BatchNext]_vars

\* the calibrators that return rate_calibrator's value or compute it in
\* line, and the Adaptive calibrator, whose _pace_error starts the same way
RateAlgos == { "Current", "Holt", "AlphaBeta", "Adaptive" }

\* a poll at the moment the session runs out: session_remaining is 0
FeedLate ==
    /\ CanChoose
    /\ Val(lastPoll).sr > 0
    /\ Feed(Later(Val(lastPoll), Val(lastPoll).sr, 3000))
    /\ nFree' = nFree + 1
    /\ UNCHANGED nWarm

\* a poll after more than GAP_THRESHOLD minutes in which 40% of the session
\* was used: the usage moves and the velocity estimate stays
FeedStaleHeavy ==
    /\ CanChoose
    /\ Val(lastPoll).sr > 20
    /\ Feed(Later(Val(lastPoll), 20, 40000))
    /\ nFree' = nFree + 1
    /\ UNCHANGED nWarm

RateInit == CalInit(RateAlgos)

RateNext ==
    \/ FeedWarm
    \/ FeedTick
    \/ FeedStale
    \/ FeedSame
    \/ FeedStaleHeavy
    \/ FeedLate

SpecRate == RateInit /\ [][RateNext]_vars

\* ------------------------------------------------------------------------
\* Properties of the calibrators
\* ------------------------------------------------------------------------

\* the last call was step(), with a poll whose session_remaining is more
\* than BOUNDARY_JUMP above that of the poll before it
SteppedOverJump ==
    /\ lastOp = "step"
    /\ ~IsNone(pre.prev)
    /\ Val(lastPoll).sr - Val(pre.prev).sr > BOUNDARY_JUMP

\* the last call was step() with a poll that is a session boundary
SteppedOverBoundary ==
    /\ lastOp = "step"
    /\ detect_boundary(Val(lastPoll), pre.prev)

\* what the velocity of an instance is computed from
VelocityState(c) ==
    [ session_polls |-> c.session_polls, ema |-> c.ema, s |-> c.s, b |-> c.b,
      v |-> c.v ]

\* C1: every value step() returns from a fixed-strategy calibrator lies in
\* [-1, 1], whatever state the earlier polls left behind.
C1_FixedOutputInRange ==
    (algo \in FixedAlgos /\ lastOp # "new") => (-ONE <= out /\ out <= ONE)

\* a fixed-strategy calibrator in its second session or later returns a
\* saturated value
C1_Witness ==
    /\ algo \in FixedAlgos
    /\ lastOp = "step"
    /\ nBound >= 2
    /\ Abs(out) = ONE

\* C2: every value step() returns from the Adaptive calibrator, and the
\* prev_signal it stores, lies in [-0.85, 0.85], whatever the learned gain,
\* baseline_rate, confidence and dead_zone are.
C2_AdaptiveSignalCapped ==
    algo = "Adaptive" =>
        /\ -SIGNAL_CAP <= out /\ out <= SIGNAL_CAP
        /\ -SIGNAL_CAP <= cal.prev_signal /\ cal.prev_signal <= SIGNAL_CAP

\* the Adaptive calibrator returns a capped value after its gain has been
\* learned from at least one observation
C2_Witness ==
    /\ algo = "Adaptive"
    /\ lastOp = "step"
    /\ cal.gain_obs_count > 0
    /\ cal.gain # PRIOR_GAIN
    /\ Abs(out) = SIGNAL_CAP
    /\ cal.prev_signal = out

\* C4: when step() receives a poll whose session_remaining is more than 30
\* above the previous poll's, the session-scoped state is at its initial
\* value before the poll is processed (empty window, no velocity estimate,
\* zero integral and previous error, multipliers 1, no accumulated gradient,
\* zone "ok", held output 0), the window afterwards holds at most the new
\* poll, and from then on the velocity is computed from the same state as in
\* an instance that never saw the polls before the boundary.
C4_JumpClearsSessionState ==
    /\ SteppedOverJump =>
          /\ mid.session_polls = << >>
          /\ cal.session_polls \in { << >>, << Val(lastPoll) >> }
          /\ mid.ema = None /\ mid.s = None /\ mid.b = 0 /\ mid.v = None
          /\ mid.integral = 0 /\ mid.prev_error = 0
          /\ mid.lam = ONE /\ mid.m = ONE /\ mid.cum_grad_sq = 0
          /\ mid.zone = "ok" /\ mid.prev_output = 0
          /\ mid.prev_signal = 0 /\ mid.signal_history = << >>
    /\ lastOp = "step" => VelocityState(cal) = VelocityState(twin)

\* a poll with a session_remaining jump reaches an instance that holds a
\* velocity estimate, or an integral, or a held output, from the session
\* before
C4_Witness ==
    /\ SteppedOverJump
    /\ \/ ~IsNone(pre.ema) /\ Len(pre.session_polls) > 1
       \/ pre.integral # 0
       \/ pre.prev_output # 0

\* the raw signal of the conditioning pipeline was below 0.08 in magnitude
\* for the last two polls, both polls of one session that the pipeline
\* processed
TwoQuietPolls ==
    /\ algo = "PB+Pipe"
    /\ lastOp = "step"
    /\ ~IsNone(pre.prev)
    /\ ~detect_boundary(Val(lastPoll), pre.prev)
    /\ Val(pre.prev).sr > 0 /\ SESSION_MIN - Val(pre.prev).sr >= 5
    /\ Val(lastPoll).sr > 0 /\ SESSION_MIN - Val(lastPoll).sr >= 5
    /\ Abs(PipeRaw(Val(pre.prev))) < 80
    /\ Abs(PipeRaw(Val(lastPoll))) < 80

\* C8 as stated: two consecutive raw signals below 0.08 both give output 0.
C8_QuietOutputsAreZero == TwoQuietPolls => (out = 0 /\ prevOut = 0)

\* C8: when two consecutive polls both yield a raw signal below 0.08 in
\* magnitude, whatever its sign, the second output is 0.85 times the first
\* (the held output decays through the smoothing stage), the calibrator is
\* in zone "ok", and the second output is 0 when the first is.
C8_QuietOutputDecays ==
    TwoQuietPolls =>
        /\ pre.prev_output = prevOut
        /\ out = Div(850 * prevOut, ONE)
        /\ cal.zone = "ok"
        /\ (prevOut = 0 => out = 0)

\* two quiet polls in a row reach a pipeline whose held output is not 0
C8_Witness == TwoQuietPolls /\ prevOut # 0 /\ out # 0

\* C9: reset() and the processing of a session-boundary poll leave gain,
\* dead_zone, confidence, baseline_rate, the gain observation count, the gain
\* variance, estimated_delay and the delay buffer of the Adaptive calibrator
\* unchanged, and put the session-scoped state back to its initial value.
C9_LearnedStatePersists ==
    algo = "Adaptive" =>
        /\ lastOp = "reset" =>
              /\ Project(cal, LearnedFields) = Project(pre, LearnedFields)
              /\ Project(cal, SessionFields) = SessionInit
        /\ SteppedOverBoundary =>
              /\ Project(mid, LearnedFields) = Project(pre, LearnedFields)
              /\ Project(mid, SessionFields) = SessionInit
              /\ Project(cal, LearnedFields) = Project(pre, LearnedFields)
              /\ cal.session_polls = << Val(lastPoll) >>
              /\ cal.signal_history = << out >>

\* reset() is called on an Adaptive calibrator that has learned a gain and
\* filled part of its delay buffer, in a session it has a signal for
C9_Witness ==
    /\ algo = "Adaptive"
    /\ lastOp = "reset"
    /\ pre.gain_obs_count > 0
    /\ pre.gain # PRIOR_GAIN
    /\ Len(pre.delay_buf) > 0
    /\ pre.prev_signal # 0
    /\ Len(pre.session_polls) > 1

\* C10 as stated: every fixed-strategy calibrator returns what an instance
\* that saw only the current session returns.
C10_FixedOutputFromSessionOnly ==
    (algo \in FixedAlgos /\ lastOp = "step") => out = twinOut

\* C10: every fixed-strategy calibrator other than Cascade returns what an
\* instance constructed at the most recent session boundary and fed only the
\* polls since then returns. (Cascade carries outer_integral and
\* dynamic_target across boundaries.)
C10_OutputFromSessionOnlyExceptCascade ==
    (algo \in FixedAlgos \ { "Cascade" } /\ lastOp = "step") => out = twinOut

\* a calibrator other than Cascade, in its second session or later, returns
\* a value other than 0
C10_Witness ==
    /\ algo \in FixedAlgos \ { "Cascade" }
    /\ lastOp = "step"
    /\ nBound >= 2
    /\ ~SteppedOverBoundary
    /\ out # 0
    /\ out = twinOut

\* the last call was step() on the conditioning pipeline
PipeStepped == algo = "PB+Pipe" /\ lastOp = "step"

\* the last step() of the conditioning pipeline reached its hysteresis stage
PipeRan ==
    /\ PipeStepped
    /\ Val(lastPoll).sr > 0
    /\ SESSION_MIN - Val(lastPoll).sr >= 5

\* the value the dead-zone stage gives for the last poll
PipeDz == PipeDeadZone(PipeRaw(Val(lastPoll)))

\* the hysteresis zone moves from `from` to `to` on the value dz as a
\* three-state machine with entry threshold 0.15 and exit threshold 0.05
ZoneMachine(from, to, dz) ==
    /\ (from = "ok" /\ to = "fast") => dz > 150
    /\ (from = "ok" /\ to = "slow") => dz < -150
    /\ (from = "fast" /\ to = "ok") => dz < 50
    /\ (from = "slow" /\ to = "ok") => dz > -50
    /\ ~(from = "fast" /\ to = "slow")
    /\ ~(from = "slow" /\ to = "fast")
    /\ (50 <= dz /\ dz <= 150) => to = from
    /\ (-150 <= dz /\ dz <= -50) => to = from

\* C21 as stated: over every step() of the pipeline the zone moves as the
\* three-state machine on the step's dead-zone value, and a step that ends
\* in zone "ok" passed 0 to the smoother.
C21_ZoneMachineOverSteps ==
    PipeStepped =>
        /\ ZoneMachine(pre.zone, cal.zone, PipeDz)
        /\ cal.zone = "ok" => cal.prev_output = PipeSmooth(0, pre.prev_output)

\* C21: in every step() of the pipeline that reaches the hysteresis stage
\* (session_remaining > 0 and at least 5 minutes elapsed), the zone moves
\* from the zone left by the step's boundary handling ("ok" after a session
\* boundary) as a three-state machine: ok -> fast only when dz > 0.15,
\* ok -> slow only when dz < -0.15, fast -> ok only when dz < 0.05,
\* slow -> ok only when dz > -0.05, never fast <-> slow, no change while dz
\* is in [0.05, 0.15] or [-0.15, -0.05]; when the zone afterwards is "ok"
\* the smoother was given 0. A step that returns early leaves the zone and
\* the held output as the boundary handling left them.
C21_ZoneMachineAfterBoundary ==
    PipeStepped =>
        IF PipeRan
        THEN /\ ZoneMachine(mid.zone, cal.zone, PipeDz)
             /\ cal.zone = "ok" => cal.prev_output = PipeSmooth(0, mid.prev_output)
             /\ cal.zone # "ok" => cal.prev_output = PipeSmooth(PipeDz, mid.prev_output)
        ELSE cal.zone = mid.zone /\ cal.prev_output = mid.prev_output

\* the pipeline leaves zone "fast" or "slow" within a session, with a held
\* output that is not 0
C21_Witness ==
    /\ PipeRan
    /\ ~detect_boundary(Val(lastPoll), pre.prev)
    /\ pre.zone # "ok"
    /\ cal.zone = "ok"
    /\ pre.prev_output # 0

\* ------------------------------------------------------------------------
\* detect_boundary called on its own
\* ------------------------------------------------------------------------

\* session_remaining of the previous poll
DbPrevRemaining == { 0, 5, 270, 300 }

\* minutes between the previous poll and the poll
DbElapsed == { 0, 5, 270, 271, 300, 305, 310 }

\* how far the poll's session_remaining lies above the previous poll's
DbRise == { -300, -270, -5, 0, 29, 30, 31, 295 }

\* a poll as far as detect_boundary reads it
DbPollAt(t, sr) == Poll(t, 0, sr, 0, WEEK_MIN - t)

DbInit ==
    /\ dbPrev \in { None } \cup { Some(DbPollAt(0, r)) : r \in DbPrevRemaining }
    /\ \E dt \in DbElapsed, rise \in DbRise :
          LET base == IF IsNone(dbPrev) THEN SESSION_MIN ELSE Val(dbPrev).sr
          IN  /\ base + rise >= 0
              /\ base + rise <= SESSION_MIN
              /\ dbPoll = DbPollAt(dt, base + rise)
    /\ dbResult = None
    /\ algo = "No Feedback"
    /\ scen \in Scenarios /\ scen.t0 = 600
    /\ cal = NewCal /\ pre = NewCal /\ mid = NewCal /\ twin = NewCal
    /\ out = 0 /\ prevOut = 0 /\ twinOut = 0
    /\ lastPoll = None /\ lastOp = "new"
    /\ nWarm = 0 /\ nFree = 0 /\ nBound = 0
    /\ SimIdle
    /\ RunIdle

\* the call detect_boundary(poll, prev)
DbCall ==
    /\ dbResult = None
    /\ dbResult' = Some(detect_boundary(dbPoll, dbPrev))
    /\ UNCHANGED << dbPrev, dbPoll, calVars, simVars, runVars >>

DbNext == DbCall

SpecBoundary == DbInit /\ [][DbNext]_vars

\* C3: detect_boundary returns true if and only if the previous poll is
\* absent, or session_remaining rose by strictly more than 30, or strictly
\* more time passed than the previous poll's session_remaining; a time gap
\* of 310 after a poll with 300 remaining is a boundary although
\* session_remaining did not rise, and a rise of exactly 30 or a gap exactly
\* equal to the previous remaining time is not a boundary.
C3_BoundaryIffJumpOrGap ==
    dbResult # None =>
        IF IsNone(dbPrev) THEN Val(dbResult) = TRUE
        ELSE LET rise == dbPoll.sr - Val(dbPrev).sr
                 gap  == dbPoll.t - Val(dbPrev).t
                 left == Val(dbPrev).sr
             IN  /\ Val(dbResult) = (rise > 30 \/ gap > left)
                 /\ (rise <= 0 /\ gap = 310 /\ left = 300) => Val(dbResult) = TRUE
                 /\ (rise = 30 /\ gap <= left) => Val(dbResult) = FALSE
                 /\ (gap = left /\ rise <= 30) => Val(dbResult) = FALSE

\* poll A at t=0 with 300 remaining, poll B at t=310 with 300 remaining:
\* detect_boundary(B, A) returned true
C3_Witness ==
    /\ dbPrev = Some(DbPollAt(0, 300))
    /\ dbPoll = DbPollAt(310, 300)
    /\ dbResult = Some(TRUE)

\* ------------------------------------------------------------------------
\* simulate.py: simulate_week and simulate_week_closed_loop
\* ------------------------------------------------------------------------

\* COMPLIANCE_PROFILES: Attentive, Casual, Distracted. noise_std and
\* miss_prob shape the draws of the noise and of `looked`, which are inputs
\* of a tick here.
COMPLIANCE_PROFILES ==
    { [ name |-> "Attentive",  compliance |-> 600, delay |-> 1, dead_zone |-> 350 ],
      [ name |-> "Casual",     compliance |-> 350, delay |-> 3, dead_zone |-> 500 ],
      [ name |-> "Distracted", compliance |-> 150, delay |-> 6, dead_zone |-> 600 ] }

\* the calibrators a closed-loop week is run with
SimAlgos == { "Current", "Adaptive" }

\* range(int(WEEK_MIN / POLL_INTERVAL))
NTicks == WEEK_MIN \div POLL_INTERVAL

\* ticks during which the draws of a run are free
BusyTicks == 3

\* the tick from which the draws of a run are free: the end of Monday's
\* first session, the ninth tick of Friday's first session, and the last
\* ticks of the week
BusyStarts == { 180, 1280, NTicks - BusyTicks }

\* the draws of a run before its free ticks: what the profile function
\* returns, whether the user looked, the noise, the exponential draw
Quiets ==
    { [ base_delta |-> 0,      looked |-> TRUE,  noise |-> 0, gap_draw |-> 5 ],
      [ base_delta |-> 2000,   looked |-> FALSE, noise |-> 0, gap_draw |-> 5 ],
      [ base_delta |-> 100000, looked |-> TRUE,  noise |-> 0, gap_draw |-> 5 ] }

\* what a profile function returns on a free tick: 0, 3% and 60%
BaseDeltas == { 0, 3000, 60000 }

\* rng.normal(0, noise_std) on a free tick
Noises == { -600, 500 }

\* rng.exponential(20) on a free tick, in minutes
GapDraws == { 0, 5, 15 }

\* ACTIVE_START <= hour < ACTIVE_END, hour = (t % 1440) / 60
IsActive(t) == ACTIVE_START <= t % 1440 /\ t % 1440 < ACTIVE_END

\* a session end that also clears the weekly usage
EndSessionClearsWeek(w, t) ==
    IF w.in_session
    THEN LET sr1 == Max(0, w.sr - POLL_INTERVAL)
         IN  IF sr1 <= 0
             THEN [ w EXCEPT !.sr = sr1, !.in_session = FALSE, !.su = 0,
                             !.wu = 0, !.last_session_end = t ]
             ELSE [ w EXCEPT !.sr = sr1 ]
    ELSE w

\* `if in_session:` -- the session clock runs down and the session ends
EndSession(w, t) ==
    IF w.in_session
    THEN LET sr1 == Max(0, w.sr - POLL_INTERVAL)
         IN  IF sr1 <= 0
             THEN [ w EXCEPT !.sr = sr1, !.in_session = FALSE, !.su = 0,
                             !.last_session_end = t ]
             ELSE [ w EXCEPT !.sr = sr1 ]
    ELSE w

\* a session start that does not wait for the gap
StartSessionAtOnce(w, t, gap_draw) ==
    IF IsActive(t) /\ ~w.in_session
    THEN [ w EXCEPT !.in_session = TRUE, !.session_num = @ + 1,
                    !.su = 0, !.sr = SESSION_MIN,
                    !.session_cals = << >>, !.consec_sat = 0 ]
    ELSE w

\* `if is_active and not in_session:` -- a session starts once the gap since
\* the last one is long enough
StartSession(w, t, gap_draw) ==
    IF IsActive(t) /\ ~w.in_session
    THEN LET gap == t - w.last_session_end
             needed_gap == IF w.session_num > 0 THEN 10 + gap_draw ELSE 0
         IN  IF gap >= needed_gap
             THEN [ w EXCEPT !.in_session = TRUE, !.session_num = @ + 1,
                             !.su = 0, !.sr = SESSION_MIN,
                             !.session_cals = << >>, !.consec_sat = 0 ]
             ELSE w
    ELSE w

\* a lookup that reads one poll further back
RawCalOneEarlier(session_cals, delay) ==
    LET idx == Len(session_cals) - delay - 1
    IN  IF idx >= 0 /\ delay > 0 THEN session_cals[idx + 1] ELSE 0

\* a lookup that reads the newest signal whatever the delay
RawCalNewest(session_cals, delay) ==
    IF Len(session_cals) > 0 /\ delay > 0 THEN session_cals[Len(session_cals)] ELSE 0

\* the calibrator output of `delay` ticks ago in this session
RawCal(session_cals, delay) ==
    LET idx == Len(session_cals) - delay
    IN  IF idx >= 0 /\ delay > 0 THEN session_cals[idx + 1] ELSE 0

\* a counter that a signal below the threshold sets back to zero
ConsecSatResets(consec_sat, raw_cal, looked) ==
    IF looked
    THEN IF Abs(raw_cal) > FATIGUE_SAT THEN consec_sat + 1 ELSE 0
    ELSE consec_sat

\* the alarm-fatigue counter
ConsecSat(consec_sat, raw_cal, looked) ==
    IF looked
    THEN IF Abs(raw_cal) > FATIGUE_SAT THEN consec_sat + 1
         ELSE Max(0, consec_sat - 1)
    ELSE consec_sat

\* the signal the user acts on
EffectiveCal(raw_cal, looked, dead_zone) ==
    IF looked /\ Abs(raw_cal) >= dead_zone THEN raw_cal ELSE 0

Fatigue(consec_sat) == Max(FATIGUE_FLOOR, ONE - FATIGUE_RATE * consec_sat)

RateMult(compliance, noise, fatigue, effective_cal) ==
    LET noisy_compliance == Mul(Max(0, compliance + noise), fatigue)
    IN  Max(150, ONE - Mul(Mul(noisy_compliance, effective_cal), COMPLIANCE_GAIN))

\* the usage update without the clamp of delta to [0, 100 - su]
ApplyDeltaUnclamped(w, delta0) ==
    [ w EXCEPT !.su = @ + delta0,
               !.wu = Min(PCT100, @ + Mul(delta0, EXCHANGE_RATE)) ]

\* a usage update that stores the increment instead of adding it
ApplyDeltaOverwrites(w, delta0) ==
    LET delta == Max(0, Min(delta0, PCT100 - w.su))
    IN  [ w EXCEPT !.su = delta,
                   !.wu = Min(PCT100, @ + Mul(delta, EXCHANGE_RATE)) ]

\* delta = max(0, min(delta, 100 - su)); su += delta;
\* wu = min(100, wu + delta * EXCHANGE_RATE)
ApplyDelta(w, delta0) ==
    LET delta == Max(0, Min(delta0, PCT100 - w.su))
    IN  [ w EXCEPT !.su = @ + delta,
                   !.wu = Min(PCT100, @ + Mul(delta, EXCHANGE_RATE)) ]

\* the tick's draws are free
Busy == sim.tick >= simCfg.busy_from

\* the draws a tick may make
TickBaseDeltas == IF Busy THEN BaseDeltas ELSE { simCfg.quiet.base_delta }

TickLooked == IF Busy THEN BOOLEAN ELSE { simCfg.quiet.looked }

TickNoises == IF Busy THEN Noises ELSE { simCfg.quiet.noise }

TickGapDraws == IF Busy THEN GapDraws ELSE { simCfg.quiet.gap_draw }

\* a run stops after its free ticks, and at the end of the week
CanTick == sim.tick < NTicks /\ sim.tick < simCfg.busy_from + BusyTicks

\* the behaviour model's result for a tick
BehaviorRate(profile, raw_cal, consec_sat, looked, noise) ==
    [ raw_cal |-> raw_cal, consec_sat |-> consec_sat,
      rate_mult |-> RateMult(profile.compliance, noise, Fatigue(consec_sat),
                             EffectiveCal(raw_cal, looked, profile.dead_zone)) ]

\* the behaviour model from the delayed signal on
BehaviorOf(profile, raw_cal, consec_sat, looked, noise) ==
    BehaviorRate(profile, raw_cal, ConsecSat(consec_sat, raw_cal, looked), looked, noise)

\* the behaviour model: the feedback block of `if in_session and is_active:`
Behavior(profile, w, looked, noise) ==
    BehaviorOf(profile, RawCal(w.session_cals, profile.delay), w.consec_sat, looked,
               noise)

\* what a tick leaves in simObs
Observe(w0, w2, w3, poll, applied, raw_cal, looked, rate_mult, base_delta) ==
    [ emitted |-> w3.in_session,
      poll |-> IF w3.in_session THEN Some(poll) ELSE simObs.poll,
      prev_poll |-> IF w3.in_session THEN simObs.poll ELSE simObs.prev_poll,
      poll_session |-> IF w3.in_session THEN w3.session_num ELSE simObs.poll_session,
      prev_poll_session |-> IF w3.in_session THEN simObs.poll_session
                            ELSE simObs.prev_poll_session,
      applied |-> applied,
      started |-> w2.session_num > w0.session_num,
      raw_cal |-> raw_cal, looked |-> looked, rate_mult |-> rate_mult,
      base_delta |-> base_delta,
      sat_before |-> w2.consec_sat, su_applied |-> w3.su ]

\* an end of the closed loop's body that appends the poll on every tick of
\* a session but steps the calibrator on active ticks only
ClosedEmitStepsWhenActive(w2, w3, m, base_delta, looked, applied, poll, r, r2) ==
    /\ sim' = IF w3.in_session
              THEN IF applied
                   THEN [ w3 EXCEPT !.tick = @ + 1, !.n_polls = @ + 1,
                                    !.steps = @ + 1,
                                    !.polls = Append(@, poll),
                                    !.cals = Append(@, r.out),
                                    !.sessions = Append(@, w3.session_num),
                                    !.session_cals = Append(@, r.out) ]
                   ELSE [ w3 EXCEPT !.tick = @ + 1, !.n_polls = @ + 1,
                                    !.polls = Append(@, poll),
                                    !.sessions = Append(@, w3.session_num) ]
              ELSE [ w3 EXCEPT !.tick = @ + 1 ]
    /\ cal' = IF w3.in_session /\ applied THEN r.c ELSE cal
    /\ pre' = IF w3.in_session /\ applied THEN cal ELSE pre
    /\ mid' = IF w3.in_session /\ applied THEN OnBoundary(algo, cal, poll) ELSE mid
    /\ lastPoll' = IF w3.in_session /\ applied THEN Some(poll) ELSE lastPoll
    /\ prevOut' = IF w3.in_session /\ applied THEN out ELSE prevOut
    /\ out' = IF w3.in_session /\ applied THEN r.out ELSE out
    /\ lastOp' = IF w3.in_session /\ applied THEN "step" ELSE lastOp
    /\ simFresh' = IF w3.in_session /\ applied THEN r2 ELSE simFresh
    /\ simObs' = Observe(sim, w2, w3, poll, applied, m.raw_cal, looked,
                         IF applied THEN m.rate_mult ELSE ONE, base_delta)

\* `if in_session:` at the end of the closed loop's body: the poll is
\* emitted and the calibrator stepped; r is the step's result
ClosedEmit(w2, w3, m, base_delta, looked, applied, poll, r, r2) ==
    /\ sim' = IF w3.in_session
              THEN [ w3 EXCEPT !.tick = @ + 1, !.n_polls = @ + 1,
                               !.steps = @ + 1,
                               !.polls = Append(@, poll),
                               !.cals = Append(@, r.out),
                               !.sessions = Append(@, w3.session_num),
                               !.session_cals = Append(@, r.out) ]
              ELSE [ w3 EXCEPT !.tick = @ + 1 ]
    /\ cal' = IF w3.in_session THEN r.c ELSE cal
    /\ pre' = IF w3.in_session THEN cal ELSE pre
    /\ mid' = IF w3.in_session THEN OnBoundary(algo, cal, poll) ELSE mid
    /\ lastPoll' = IF w3.in_session THEN Some(poll) ELSE lastPoll
    /\ prevOut' = IF w3.in_session THEN out ELSE prevOut
    /\ out' = IF w3.in_session THEN r.out ELSE out
    /\ lastOp' = IF w3.in_session THEN "step" ELSE lastOp
    /\ simFresh' = IF w3.in_session THEN r2 ELSE simFresh
    /\ simObs' = Observe(sim, w2, w3, poll, applied, m.raw_cal, looked,
                         IF applied THEN m.rate_mult ELSE ONE, base_delta)

\* the closed loop's body from the poll on; the shadow calibrator of a call
\* on a used instance is given the same poll
ClosedPoll(w2, w3, m, base_delta, looked, applied, poll) ==
    ClosedEmit(w2, w3, m, base_delta, looked, applied, poll, Step(algo, cal, poll),
               IF sim.week > 1 THEN Step(algo, simFresh.c, poll) ELSE simFresh)

\* the closed loop's body from the usage update on
ClosedUsage(t, w2, w3, m, base_delta, looked, applied) ==
    ClosedPoll(w2, w3, m, base_delta, looked, applied,
               Poll(t, w3.su, w3.sr, w3.wu, WEEK_MIN - t))

\* the closed loop's body from the behaviour model's result on
ClosedApply(t, w2, m, base_delta, looked, applied) ==
    ClosedUsage(t, w2,
                IF applied
                THEN ApplyDelta([ w2 EXCEPT !.consec_sat = m.consec_sat ],
                                Mul(base_delta, m.rate_mult))
                ELSE w2,
                m, base_delta, looked, applied)

\* the closed loop's body after the session bookkeeping
ClosedFrom(t, w2, base_delta, looked, noise) ==
    ClosedApply(t, w2, Behavior(simCfg.profile, w2, looked, noise), base_delta,
                looked, w2.in_session /\ IsActive(t))

\* one iteration of the loop of simulate_week_closed_loop
TickClosed ==
    /\ simCfg.loop = "closed"
    /\ sim.pc = "loop"
    /\ CanTick
    /\ \E base_delta \in TickBaseDeltas, looked \in TickLooked,
          noise \in TickNoises, gap_draw \in TickGapDraws :
          ClosedFrom(sim.tick * POLL_INTERVAL,
                     StartSession(EndSession(sim, sim.tick * POLL_INTERVAL),
                                  sim.tick * POLL_INTERVAL, gap_draw),
                     base_delta, looked, noise)
    /\ UNCHANGED << algo, twin, twinOut, scen, nWarm, nFree, nBound, simCfg,
                    dbVars, runVars >>

\* `if in_session:` at the end of the open loop's body
OpenEmit(w2, w3, base_delta, applied, poll) ==
    /\ sim' = IF w3.in_session
              THEN [ w3 EXCEPT !.tick = @ + 1, !.n_polls = @ + 1,
                               !.polls = Append(@, poll),
                               !.sessions = Append(@, w3.session_num) ]
              ELSE [ w3 EXCEPT !.tick = @ + 1 ]
    /\ simObs' = Observe(sim, w2, w3, poll, applied, 0, FALSE, ONE, base_delta)

\* the open loop's body from the usage update on
OpenUsage(t, w2, w3, base_delta, applied) ==
    OpenEmit(w2, w3, base_delta, applied, Poll(t, w3.su, w3.sr, w3.wu, WEEK_MIN - t))

\* the open loop's body after the session bookkeeping
OpenFrom(t, w2, base_delta) ==
    OpenUsage(t, w2,
              IF w2.in_session /\ IsActive(t) THEN ApplyDelta(w2, base_delta) ELSE w2,
              base_delta, w2.in_session /\ IsActive(t))

\* one iteration of the loop of simulate_week
TickOpen ==
    /\ simCfg.loop = "open"
    /\ sim.pc = "loop"
    /\ CanTick
    /\ \E base_delta \in TickBaseDeltas, gap_draw \in TickGapDraws :
          OpenFrom(sim.tick * POLL_INTERVAL,
                   StartSession(EndSession(sim, sim.tick * POLL_INTERVAL),
                                sim.tick * POLL_INTERVAL, gap_draw),
                   base_delta)
    /\ UNCHANGED << calVars, simCfg, simFresh, dbVars, runVars >>

\* the calibrator a closed-loop week is run with beyond Monday
LongRunAlgos == { "Current" }

\* the entry of simulate_week_closed_loop: the random stream is seeded, the
\* calibrator reset and the locals initialised
EnterClosed(week) ==
    /\ sim' = [ SimNew EXCEPT !.pc = "loop", !.week = week, !.resets = 1 ]
    /\ simObs' = ObsNew
    /\ pre' = cal
    /\ cal' = Reset(algo, cal)
    /\ lastOp' = "reset"
    /\ simFresh' = IF week > 1 THEN [ c |-> Reset(algo, NewCal), out |-> 0 ]
                   ELSE simFresh
    /\ UNCHANGED << algo, out, prevOut, mid, lastPoll, twin, twinOut, scen,
                    nWarm, nFree, nBound, dbVars, runVars >>

\* simulate_week_closed_loop is called with a newly constructed calibrator
CallClosed ==
    /\ simCfg.loop = "closed"
    /\ sim.pc = "start"
    /\ EnterClosed(1)
    /\ UNCHANGED simCfg

\* simulate_week_closed_loop is called again, for another week, with the
\* calibrator the call before it used
CallClosedAgain ==
    /\ simCfg.loop = "closed"
    /\ sim.pc = "done"
    /\ sim.week < simCfg.calls
    /\ EnterClosed(sim.week + 1)
    /\ \E quiet \in simCfg.then_quiets :
          simCfg' = [ simCfg EXCEPT !.quiet = quiet, !.busy_from = simCfg.then_busy_from ]

\* the entry of simulate_week
CallOpen ==
    /\ simCfg.loop = "open"
    /\ sim.pc = "start"
    /\ sim' = [ SimNew EXCEPT !.pc = "loop" ]
    /\ simObs' = ObsNew
    /\ UNCHANGED << calVars, simCfg, simFresh, dbVars, runVars >>

\* `return polls, cals` (`return polls` in simulate_week) once the loop has
\* run through range(int(WEEK_MIN / POLL_INTERVAL))
SimReturn ==
    /\ sim.pc = "loop"
    /\ sim.tick = NTicks
    /\ sim' = [ sim EXCEPT !.pc = "done" ]
    /\ UNCHANGED << calVars, simCfg, simObs, simFresh, dbVars, runVars >>

\* a calibrator is constructed and no simulation has been called
SimBegin(algos) ==
    /\ sim = SimNew
    /\ simObs = ObsNew
    /\ simFresh = FreshNew
    /\ algo \in algos
    /\ cal = NewCal
    /\ pre = NewCal /\ mid = NewCal /\ twin = NewCal
    /\ out = 0 /\ prevOut = 0 /\ twinOut = 0
    /\ lastPoll = None /\ lastOp = "new"
    /\ scen \in Scenarios /\ scen.t0 = 600
    /\ nWarm = 0 /\ nFree = 0 /\ nBound = 0
    /\ DbIdle
    /\ RunIdle

\* the runs: simulate_week, and simulate_week_closed_loop with each
\* calibrator and compliance profile
SimInit ==
    /\ SimBegin(SimAlgos \cup { "No Feedback" })
    /\ \E quiet \in Quiets, busy_from \in BusyStarts :
          \/ /\ algo = "No Feedback"
             /\ simCfg = [ loop |-> "open", quiet |-> quiet, busy_from |-> busy_from ]
          \/ /\ algo \in SimAlgos
             /\ busy_from > NTicks \div 7 => algo \in LongRunAlgos
             /\ \E profile \in COMPLIANCE_PROFILES :
                   simCfg = [ loop |-> "closed", quiet |-> quiet,
                              busy_from |-> busy_from, profile |-> profile,
                              calls |-> 1, then_busy_from |-> busy_from,
                              then_quiets |-> { quiet } ]

SimNext ==
    \/ CallClosed
    \/ CallOpen
    \/ TickClosed
    \/ TickOpen
    \/ SimReturn

SpecSim == SimInit /\ [][SimNext]_vars

\* the polls a state holds: the last one emitted and the one before it
LastPoll == Val(simObs.poll)

PrevPoll == Val(simObs.prev_poll)

\* the last tick emitted a poll and an earlier poll of the week exists
TwoPolls == simObs.emitted /\ ~IsNone(simObs.prev_poll)

\* C5: every poll the open-loop and the closed-loop simulator emit has
\* 0 <= session_usage <= 100, 0 <= weekly_usage <= 100,
\* session_remaining >= 0 and weekly_remaining >= 0, whatever the profile
\* function returned and whatever rate multiplier was applied.
C5_PollsWithinLimits ==
    simObs.emitted =>
        /\ 0 <= LastPoll.su /\ LastPoll.su <= PCT100
        /\ 0 <= LastPoll.wu /\ LastPoll.wu <= PCT100
        /\ LastPoll.sr >= 0
        /\ LastPoll.wr >= 0

\* a poll emitted after a rate multiplier above 1 pushed the increment
\* beyond what was left of the session: session_usage stands at 100
C5_Witness ==
    /\ simObs.emitted /\ simObs.applied
    /\ simObs.rate_mult > ONE
    /\ Mul(simObs.base_delta, simObs.rate_mult) > PCT100 - PrevPoll.su
    /\ simObs.poll_session = simObs.prev_poll_session
    /\ LastPoll.su = PCT100

\* C6: weekly_usage never decreases from one poll of a week to the next,
\* within a session and across session boundaries, whatever rate multiplier
\* is applied.
C6_WeeklyUsageNeverDecreases ==
    TwoPolls => PrevPoll.wu <= LastPoll.wu

\* the first poll of a later session carries more weekly usage than the
\* last poll of the session before
C6_Witness ==
    /\ TwoPolls
    /\ simObs.poll_session > simObs.prev_poll_session
    /\ PrevPoll.wu > 0
    /\ PrevPoll.wu < LastPoll.wu

\* C7 as stated: session_usage never decreases from one poll of a week to
\* the next.
C7_SessionUsageNeverDecreases ==
    TwoPolls => PrevPoll.su <= LastPoll.su

\* C7: session_usage never decreases from one poll to the next poll of the
\* same session, whatever rate multiplier is applied; the first poll of a
\* session starts again from 0 and carries that tick's increment only.
C7_SessionUsageNeverDecreasesInSession ==
    TwoPolls =>
        IF simObs.poll_session = simObs.prev_poll_session
        THEN PrevPoll.su <= LastPoll.su
        ELSE /\ simObs.started
             /\ LastPoll.su = Max(0, Min(Mul(simObs.base_delta, simObs.rate_mult),
                                         PCT100))

\* session_usage grew between two polls of one session under a rate
\* multiplier below 1
C7_Witness ==
    /\ TwoPolls /\ simObs.applied
    /\ simObs.poll_session = simObs.prev_poll_session
    /\ simObs.rate_mult < ONE
    /\ 0 < PrevPoll.su /\ PrevPoll.su < LastPoll.su

\* ------------------------------------------------------------------------
\* The Adaptive calibrator's rate limit
\* ------------------------------------------------------------------------

\* C13 as stated: the value step() returns differs from the value the step()
\* before it returned by at most 0.2.
C13_SignalChangeLimited ==
    (algo = "Adaptive" /\ lastOp = "step") => Abs(out - prevOut) <= MAX_DELTA_C

\* C13: when step() receives a poll that is not a session boundary, the
\* value it returns differs from the value the step() before it returned by
\* at most 0.2; the first value of a session (after a boundary poll, or
\* after reset()) lies within 0.2 of zero, whatever the value before it was.
C13_SignalChangeLimitedInSession ==
    (algo = "Adaptive" /\ lastOp = "step") =>
        IF SteppedOverBoundary
        THEN Abs(out) <= MAX_DELTA_C
        ELSE /\ pre.prev_signal = prevOut
             /\ Abs(out - prevOut) <= MAX_DELTA_C

\* within a session the raw signal lies more than 0.2 away from the
\* previous signal, which is not zero, and the value returned moves by 0.2
C13_Witness ==
    /\ algo = "Adaptive"
    /\ lastOp = "step"
    /\ ~SteppedOverBoundary
    /\ prevOut # 0
    /\ Abs(out - prevOut) = MAX_DELTA_C

\* ------------------------------------------------------------------------
\* A calibrator used for one week and given to simulate_week_closed_loop
\* again
\* ------------------------------------------------------------------------

\* the compliance profile of the weeks a calibrator is used again in
ReuseProfiles == { p \in COMPLIANCE_PROFILES : p.name = "Attentive" }

\* the tick from which the draws of the second week are free
ReuseBusyStart == 180

\* a week that runs to its end on fixed draws, then a second call with the
\* same instance
ReuseInit ==
    /\ SimBegin(FixedAlgos)
    /\ \E quiet \in Quiets, profile \in ReuseProfiles :
          simCfg = [ loop |-> "closed", quiet |-> quiet, busy_from |-> NTicks,
                     profile |-> profile, calls |-> 2,
                     then_busy_from |-> ReuseBusyStart, then_quiets |-> Quiets ]

ReuseNext ==
    \/ CallClosed
    \/ TickClosed
    \/ SimReturn
    \/ CallClosedAgain

SpecReuse == ReuseInit /\ [][ReuseNext]_vars

\* the call under way is a second call, on a used instance
UsedAgain == simCfg.loop = "closed" /\ sim.week > 1 /\ sim.pc = "loop"

\* C11 as stated: every fixed-strategy calibrator, once reset() has been
\* called, returns for every poll what a newly constructed instance returns.
C11_ResetEqualsNew ==
    (UsedAgain /\ algo \in FixedAlgos /\ simObs.emitted) => out = simFresh.out

\* C11: for every fixed-strategy calibrator other than Cascade, the instance
\* after reset() is in the state of a newly constructed one, and through the
\* week that follows it stays in the state of, and returns the values of, a
\* new instance given the same polls. (CascadeStep.reset keeps
\* outer_integral.)
C11_ResetEqualsNewExceptCascade ==
    (UsedAgain /\ algo \in FixedAlgos \ { "Cascade" }) =>
        /\ cal = simFresh.c
        /\ sim.tick = 0 => cal = NewCal
        /\ simObs.emitted => out = simFresh.out

\* a calibrator other than Cascade that ended a week with a poll, and a
\* window or an integral or a held output, returns a value other than 0 in
\* the week after
C11_Witness ==
    /\ UsedAgain
    /\ algo \in FixedAlgos \ { "Cascade" }
    /\ ~IsNone(pre.prev)
    /\ \/ Len(pre.session_polls) > 0
       \/ pre.integral # 0
       \/ pre.prev_output # 0
       \/ ~IsNone(pre.v)
    /\ simObs.emitted
    /\ sim.steps >= 6
    /\ out # 0
    /\ out = simFresh.out

\* ------------------------------------------------------------------------
\* The behaviour model of the closed loop
\* ------------------------------------------------------------------------

\* the last tick ran the behaviour model: the closed loop's
\* `if in_session and is_active:` block
ModelRan == simCfg.loop = "closed" /\ sim.pc = "loop" /\ simObs.applied

\* C12 as stated: on every active in-session tick the fatigue counter goes
\* up by 1 when the delayed signal's magnitude exceeds 0.9 and otherwise down
\* by 1, never below 0.
C12_FatigueCounterStepsEveryTick ==
    ModelRan =>
        sim.consec_sat = IF Abs(simObs.raw_cal) > FATIGUE_SAT /\ simObs.looked
                         THEN simObs.sat_before + 1
                         ELSE Max(0, simObs.sat_before - 1)

\* C12: on every active in-session tick on which the user looks at the
\* signal, the fatigue counter goes up by exactly 1 when the delayed signal's
\* magnitude exceeds 0.9 and otherwise down by exactly 1, never below 0; on
\* a tick the user misses it is unchanged; a session starts with the counter
\* at 0.
C12_FatigueCounterStepsWhenLooked ==
    /\ ModelRan =>
          /\ sim.consec_sat >= 0
          /\ simObs.started => simObs.sat_before = 0
          /\ sim.consec_sat =
                IF ~simObs.looked THEN simObs.sat_before
                ELSE IF Abs(simObs.raw_cal) > FATIGUE_SAT THEN simObs.sat_before + 1
                ELSE Max(0, simObs.sat_before - 1)
    /\ (simCfg.loop = "closed" /\ sim.pc = "loop" /\ ~simObs.applied /\ sim.tick > 0) =>
          sim.consec_sat = simObs.sat_before

\* the user looks at a signal that is not saturated after at least five
\* saturated ones: the counter goes down by one and stays above zero
C12_Witness ==
    /\ ModelRan
    /\ simObs.looked
    /\ Abs(simObs.raw_cal) <= FATIGUE_SAT
    /\ simObs.sat_before >= 5
    /\ sim.consec_sat = simObs.sat_before - 1

\* the signals emitted before the last tick's, in the whole week
CalsBefore == IF simObs.emitted THEN Len(sim.cals) - 1 ELSE Len(sim.cals)

\* the signals emitted before the last tick's in the session of the last tick
EmittedInSession ==
    Cardinality({ i \in 1..CalsBefore : sim.sessions[i] = sim.session_num })

\* C19: on an active tick of a session in which n signals have been emitted,
\* the behaviour model reads the signal emitted `delay` polls earlier in the
\* same session when delay >= 1 and n >= delay, and 0 otherwise; no signal of
\* an earlier session is read.
C19_DelayedSignalOfSameSession ==
    ModelRan =>
        LET delay == simCfg.profile.delay
            n == EmittedInSession
        IN  /\ Len(sim.session_cals) = n + 1
            /\ simObs.raw_cal =
                  IF delay >= 1 /\ n >= delay
                  THEN sim.cals[CalsBefore - delay + 1]
                  ELSE 0
            /\ (delay >= 1 /\ n >= delay) =>
                  sim.sessions[CalsBefore - delay + 1] = sim.session_num

\* in a later session of the week, with a delay of 3 polls: fewer than 3
\* signals of the session have been emitted although the session before
\* ended with a signal other than 0, and 0 is read
C19_Witness ==
    /\ ModelRan
    /\ simCfg.profile.delay = 3
    /\ sim.session_num >= 2
    /\ EmittedInSession \in 1..2
    /\ CalsBefore >= 3
    /\ sim.cals[CalsBefore - 2] # 0
    /\ simObs.raw_cal = 0

\* the behaviour model read a signal of the session, other than 0, emitted
\* 6 polls earlier
C19_WitnessDelayed ==
    /\ ModelRan
    /\ simCfg.profile.delay = 6
    /\ EmittedInSession >= 6
    /\ simObs.raw_cal # 0

\* C20: in a closed-loop week driven by the Adaptive calibrator the delayed
\* signal is never above 0.9 in magnitude, the consecutive-saturation
\* counter is 0 at every tick and the fatigue multiplier is exactly 1, for
\* every compliance profile.
C20_AdaptiveNeverFatigues ==
    (simCfg.loop = "closed" /\ algo = "Adaptive") =>
        /\ sim.consec_sat = 0
        /\ Fatigue(sim.consec_sat) = ONE
        /\ ModelRan => Abs(simObs.raw_cal) <= FATIGUE_SAT
        /\ \A i \in 1..Len(sim.session_cals) : Abs(sim.session_cals[i]) <= SIGNAL_CAP

\* the user looks at a signal of the Adaptive calibrator that stands at its
\* cap of 0.85
C20_Witness ==
    /\ ModelRan
    /\ algo = "Adaptive"
    /\ simObs.looked
    /\ Abs(simObs.raw_cal) = SIGNAL_CAP
    /\ sim.consec_sat = 0

\* ------------------------------------------------------------------------
\* simulate_week_closed_loop as a whole
\* ------------------------------------------------------------------------

\* a call of simulate_week_closed_loop whose ticks all run
WholeWeek == simCfg.loop = "closed" /\ simCfg.busy_from + BusyTicks >= NTicks

\* what holds of a call of simulate_week_closed_loop at every point
ClosedLoopShape ==
    simCfg.loop = "closed" =>
        /\ sim.tick <= NTicks
        /\ sim.pc = "start" => (sim.resets = 0 /\ sim.tick = 0 /\ sim.steps = 0)
        /\ sim.pc # "start" => sim.resets = 1
        /\ sim.pc = "done" => sim.tick = NTicks
        /\ Len(sim.polls) = Len(sim.cals)
        /\ sim.steps = Len(sim.polls)
        /\ (sim.pc = "loop" /\ simObs.emitted) =>
              /\ sim.polls[Len(sim.polls)] = LastPoll
              /\ sim.cals[Len(sim.cals)] = out
              /\ cal.prev = Some(LastPoll)
              /\ LastPoll.t = (sim.tick - 1) * POLL_INTERVAL
              /\ LastPoll.su = simObs.su_applied
              /\ sim.session_cals[Len(sim.session_cals)] = out
        /\ (sim.pc = "loop" /\ TwoPolls) =>
              /\ sim.polls[Len(sim.polls) - 1] = PrevPoll
              /\ PrevPoll.t < LastPoll.t
        /\ (WholeWeek /\ sim.pc = "loop") => (CanTick \/ sim.tick = NTicks)

\* a step of the closed loop is one iteration: the tick advances by one,
\* at most one poll and one signal are appended, and nothing is appended on
\* return
LoopAdvances ==
    (simCfg.loop = "closed" /\ sim.pc = "loop") =>
        /\ sim'.pc = "loop" =>
              /\ sim'.tick = sim.tick + 1
              /\ Len(sim'.polls) \in { Len(sim.polls), Len(sim.polls) + 1 }
        /\ sim'.pc = "done" => (sim'.polls = sim.polls /\ sim'.cals = sim.cals)
        /\ sim'.resets = sim.resets

\* C14: simulate_week_closed_loop calls reset() once, before the first tick,
\* runs exactly 2016 ticks and returns (every iteration advances the tick by
\* one and, until it has returned, the loop has a next iteration or returns);
\* the poll list and the signal list
\* have the same length at every point, step() is called once per emitted
\* poll, in strictly increasing poll time, the signal at each index is the
\* value step() returned for the poll at that index, and the poll carries
\* the tick's usage increment although the signal read by the behaviour
\* model on that tick was emitted before it.
C14_WeekTerminatesWithPairedTraces ==
    /\ []ClosedLoopShape
    /\ [][LoopAdvances]_vars

\* a whole week of the closed loop has returned, with more than 100 polls
C14_Witness ==
    /\ simCfg.loop = "closed"
    /\ sim.pc = "done"
    /\ sim.tick = NTicks
    /\ Len(sim.polls) > 100
    /\ Len(sim.cals) = Len(sim.polls)


\* ------------------------------------------------------------------------
\* One Adaptive calibrator run for N_MW_WEEKS weeks with one user
\* ------------------------------------------------------------------------

\* the user of the convergence runs: compliance 0.6, delay 1, dead zone 0.35
ConvergeProfiles == { p \in COMPLIANCE_PROFILES : p.name = "Attentive" }

\* the draws of a convergence run: a user who always looks and answers
\* without noise, on a load of 0.33% a tick (the mean of the Steady profile)
\* and of 0.55% a tick (the mean of the Heavy profile)
ConvergeQuiets ==
    { [ base_delta |-> 330, looked |-> TRUE, noise |-> 0, gap_draw |-> 5 ],
      [ base_delta |-> 550, looked |-> TRUE, noise |-> 0, gap_draw |-> 5 ] }

\* the multi-week run: one Adaptive instance, N_MW_WEEKS calls of
\* simulate_week_closed_loop with it
ConvergeInit ==
    /\ SimBegin({ "Adaptive" })
    /\ \E quiet \in ConvergeQuiets, profile \in ConvergeProfiles :
          simCfg = [ loop |-> "closed", quiet |-> quiet, busy_from |-> NTicks,
                     profile |-> profile, calls |-> N_MW_WEEKS,
                     then_busy_from |-> NTicks, then_quiets |-> { quiet } ]

ConvergeNext ==
    \/ CallClosed
    \/ TickClosed
    \/ SimReturn
    \/ CallClosedAgain

SpecConverge == ConvergeInit /\ [][ConvergeNext]_vars

\* compliance * COMPLIANCE_GAIN: the fraction by which a signal of 1 changes
\* the user's rate
TrueGain(profile) == Mul(profile.compliance, COMPLIANCE_GAIN)

\* C18: after N_MW_WEEKS weeks with the user of compliance 0.6, delay 1 and
\* dead zone 0.35, the Adaptive calibrator's confidence is above 0.5, its
\* gain is within 0.3 relative error of the true normalized gain, and its
\* estimated delay is 1 once 20 samples are buffered.
C18_AdaptiveConverges ==
    (algo = "Adaptive" /\ simCfg.loop = "closed" /\ simCfg.profile \in ConvergeProfiles
       /\ sim.week >= N_MW_WEEKS /\ sim.pc = "done") =>
        /\ cal.confidence > 500
        /\ ONE * Abs(cal.gain - TrueGain(simCfg.profile))
              < 300 * TrueGain(simCfg.profile)
        /\ Len(cal.delay_buf) >= 20 => cal.estimated_delay = 1


\* ------------------------------------------------------------------------
\* The Adaptive calibrator in closed loop with each kind of user, over whole
\* weeks
\* ------------------------------------------------------------------------

\* the draws of a week: the profile function returns 0.33%, 1%, 2%, 3% or 5%
\* per tick, the user looks at every signal
LearnQuiets ==
    { [ base_delta |-> d, looked |-> TRUE, noise |-> 0, gap_draw |-> 5 ] :
        d \in { 330, 1000, 2000, 3000, 5000 } }

LearnInit ==
    /\ SimBegin({ "Adaptive" })
    /\ \E quiet \in LearnQuiets, profile \in COMPLIANCE_PROFILES :
          simCfg = [ loop |-> "closed", quiet |-> quiet, busy_from |-> NTicks,
                     profile |-> profile, calls |-> 1,
                     then_busy_from |-> NTicks, then_quiets |-> { quiet } ]

LearnNext ==
    \/ CallClosed
    \/ TickClosed
    \/ SimReturn

SpecLearn == LearnInit /\ [][LearnNext]_vars

\* the last call on the Adaptive calibrator was step()
AdaptiveStepped == algo = "Adaptive" /\ lastOp = "step" /\ ~IsNone(lastPoll)

\* the pace error of the last step(): _pace_error reads the velocity
\* estimate, which the step leaves as it computed it
StepError == AdaptivePaceError(cal, Val(lastPoll))

\* confidence * gain + (1 - confidence) * PRIOR_GAIN of the last step():
\* _to_signal runs after _learn, on the learned state the step leaves
StepEffGain == Div(cal.confidence * cal.gain + (ONE - cal.confidence) * PRIOR_GAIN, ONE)

\* the raw signal of the last step() before the boost
StepRawUnboosted ==
    IF Abs(StepError) < NOISE_FLOOR THEN 0
    ELSE Div(StepError * ONE, Max(Mul(cal.baseline_rate, StepEffGain), 1))

\* the signal _to_signal returns for the raw signal raw: the change from the
\* session's previous signal limited to MAX_DELTA_C, the result to SIGNAL_CAP
StepLimited(raw) ==
    Clamp(-SIGNAL_CAP, SIGNAL_CAP,
          mid.prev_signal + Clamp(-MAX_DELTA_C, MAX_DELTA_C, raw - mid.prev_signal))

\* raw, set to 1.1 * dead_zone in magnitude when it is not 0 and its
\* magnitude is below threshold
BoostedBelow(raw, threshold) ==
    IF raw # 0 /\ Abs(raw) < threshold
    THEN (IF raw > 0 THEN 1 ELSE -1) * Div(cal.dead_zone * 11, 10)
    ELSE raw

\* C22 as stated: the boost alters the raw signal exactly when it is not 0
\* and its magnitude is below dead_zone, and then makes it 1.1 * dead_zone
\* with the sign kept.
C22_BoostBelowDeadZone ==
    AdaptiveStepped => out = StepLimited(BoostedBelow(StepRawUnboosted, cal.dead_zone))

\* C22: the boost alters the raw (pre-rate-limit) signal exactly when it is
\* not 0 and its magnitude is below 1.1 * dead_zone, and then makes it
\* 1.1 * dead_zone with the sign kept; a raw signal of magnitude
\* 1.1 * dead_zone or more is unchanged and zero stays zero. The signal
\* returned is the rate-limited and capped value of that raw signal.
C22_BoostBelowBoostedLevel ==
    AdaptiveStepped =>
        out = StepLimited(BoostedBelow(StepRawUnboosted, Div(cal.dead_zone * 11, 10)))

\* a raw signal between dead_zone and 1.1 * dead_zone is raised, and the
\* signal returned shows it
C22_Witness ==
    /\ AdaptiveStepped
    /\ cal.dead_zone <= Abs(StepRawUnboosted)
    /\ Abs(StepRawUnboosted) < Div(cal.dead_zone * 11, 10)
    /\ out # StepLimited(StepRawUnboosted)
    /\ out = StepLimited(BoostedBelow(StepRawUnboosted, Div(cal.dead_zone * 11, 10)))

\* C23: whenever the pace error has magnitude at least the noise floor, the
\* signal the Adaptive calibrator emits for the poll has magnitude at least
\* min(dead_zone, 0.85), whatever the previous signal and the learned state.
C23_SignalPerceptible ==
    (AdaptiveStepped /\ Abs(StepError) >= NOISE_FLOOR) =>
        Abs(out) >= Min(cal.dead_zone, SIGNAL_CAP)

\* the poll before the last one in the session window of the last step()
StepPrevPoll == cal.session_polls[Len(cal.session_polls) - 1]

\* the last step() of the Adaptive calibrator passed the gates of _learn:
\* third poll of the session or later, 5 minutes elapsed, a gap in
\* (0, GAP_THRESHOLD], MAX_DELAY signals emitted in the session
LearnRan ==
    /\ AdaptiveStepped
    /\ Len(cal.session_polls) >= 3
    /\ SESSION_MIN - Val(lastPoll).sr >= 5
    /\ Val(lastPoll).t - StepPrevPoll.t > 0
    /\ Val(lastPoll).t - StepPrevPoll.t <= GAP_THRESHOLD
    /\ Len(mid.signal_history) >= MAX_DELAY

\* observed_rate of the last learning step
LearnRate == Div(Val(lastPoll).su - StepPrevPoll.su, Val(lastPoll).t - StepPrevPoll.t)

\* past_signal of the last learning step: the signal estimated_delay polls
\* back, estimated_delay being what the re-estimation left
LearnPastSignal == FromEnd(mid.signal_history, cal.estimated_delay)

\* observed_rate - baseline_rate as the gain and dead-zone branches see it
LearnResponse == LearnRate - pre.baseline_rate

\* past_signal lies in the probe region around the dead zone
InProbeRegion == Abs(Abs(LearnPastSignal) - pre.dead_zone) < DZ_WINDOW

\* the dead zone one step narrower or wider than before the last step(),
\* by the response
DeadZoneStepped ==
    IF LearnResponse * LearnPastSignal < 0 /\ Abs(LearnResponse) > 10
    THEN Max(DZ_MIN, pre.dead_zone - DZ_STEP)
    ELSE Min(DZ_MAX, pre.dead_zone + DZ_STEP)

\* the learning step ended in its baseline branch
LearnedBaseline == 2 * Abs(LearnPastSignal) < pre.dead_zone

\* the learning step ended at the miss check of its gain branch
LearnSkippedMiss == Abs(LearnPastSignal) > pre.dead_zone /\ Abs(LearnResponse) < 10

\* C24 as stated: in every learning step that is not gated out and has
\* past_signal in the probe region, dead_zone moves one step: down (not
\* below 0.05) when the response opposes the signal with magnitude above
\* 0.01, up (not above 0.8) otherwise.
C24_ProbeStepsDeadZone ==
    (LearnRan /\ InProbeRegion) => cal.dead_zone = DeadZoneStepped

\* C24: in every learning step that is not gated out, has past_signal in the
\* probe region, did not end in the baseline branch (|past_signal| at least
\* half the dead zone) and did not end at the miss check (|past_signal| above
\* the dead zone with |response| below 0.01), dead_zone moves one step: down
\* by 0.005 (not below 0.05) when the response opposes the signal with
\* magnitude above 0.01, up by 0.005 (not above 0.8) otherwise. In every
\* other step dead_zone is unchanged.
C24_ProbeStepsDeadZoneUnlessReturned ==
    AdaptiveStepped =>
        cal.dead_zone =
            IF LearnRan /\ InProbeRegion /\ ~LearnedBaseline /\ ~LearnSkippedMiss
            THEN DeadZoneStepped
            ELSE pre.dead_zone

\* a learning step in the probe region narrows the dead zone
C24_Witness ==
    /\ LearnRan
    /\ InProbeRegion
    /\ ~LearnedBaseline
    /\ ~LearnSkippedMiss
    /\ cal.dead_zone = pre.dead_zone - DZ_STEP

\* the last step() of the Adaptive calibrator re-estimated the delay: its
\* learning step ran with 20 or more entries in the delay buffer
ReEstimated == LearnRan /\ Len(cal.delay_buf) >= 20

\* what the re-estimation makes of one lag's sum and count r: the lag
\* qualifies with 5 or more entries counted, and its score is then the mean
LagStatOf(r) ==
    [ n |-> r.n, sum |-> r.score, qualifies |-> r.n >= 5,
      mean |-> IF r.n >= 5 THEN Div(r.score, r.n) ELSE 0 ]

\* for each lag, the sum of -(rate - mean_rate) * signal and the number of
\* entries of the delay buffer buf whose signal at the lag exceeds 0.1 in
\* magnitude, and the mean score where at least 5 entries count
LagStatsOf(buf, mean_rate) ==
    [ d \in 1..MAX_DELAY |-> LagStatOf(LagScore(buf, d, mean_rate, 1, Len(buf))) ]

\* the statistics of the buffer the last re-estimation read
LagStats ==
    LagStatsOf(cal.delay_buf,
               Div(SumRates(cal.delay_buf, 1, Len(cal.delay_buf)), Len(cal.delay_buf)))

\* the qualifying lags whose mean score is the highest, given the statistics
TopLags(stats) ==
    { d \in 1..MAX_DELAY :
        /\ stats[d].qualifies
        /\ \A e \in 1..MAX_DELAY : stats[e].qualifies => stats[e].mean <= stats[d].mean }

\* two or more lags share the highest score, which is positive, with the
\* same entries counted and the same sum
TiedAtTop ==
    \E stats \in { LagStats } :
        \E d \in TopLags(stats), e \in TopLags(stats) :
            /\ d # e
            /\ stats[d].mean > 0
            /\ stats[d].n = stats[e].n
            /\ stats[d].sum = stats[e].sum

\* C25: when the delay re-estimation finds two or more lags sharing the
\* highest positive score, estimated_delay keeps the value it had before.
C25_TiesKeepPriorEstimate ==
    (ReEstimated /\ TiedAtTop) => cal.estimated_delay = pre.estimated_delay

\* some lag qualifies with a positive mean score
PositiveLag(stats) == \E d \in 1..MAX_DELAY : stats[d].qualifies /\ stats[d].mean > 0

\* C26: estimated_delay changes only in a learning step whose delay buffer
\* holds at least 20 entries, and only to a lag in 1..8 that has at least 5
\* entries with a signal above 0.1 in magnitude at the lag and whose mean
\* score is positive and the highest among the qualifying lags; in every
\* other step (fewer than 20 entries, no qualifying lag, no positive score,
\* no learning) and in reset() it is unchanged.
C26_DelayChangesOnlyToBestLag ==
    algo = "Adaptive" =>
        /\ lastOp = "reset" => cal.estimated_delay = pre.estimated_delay
        /\ (AdaptiveStepped /\ ~ReEstimated) => cal.estimated_delay = pre.estimated_delay
        /\ ReEstimated =>
              \E stats \in { LagStats } :
                  /\ ~PositiveLag(stats) => cal.estimated_delay = pre.estimated_delay
                  /\ cal.estimated_delay # pre.estimated_delay =>
                        /\ cal.estimated_delay \in TopLags(stats)
                        /\ stats[cal.estimated_delay].n >= 5
                        /\ stats[cal.estimated_delay].mean > 0

\* a re-estimation moves estimated_delay to another lag
C26_Witness ==
    /\ ReEstimated
    /\ cal.estimated_delay # pre.estimated_delay
    /\ cal.estimated_delay > 1

\* minutes between the poll of the last step() and the poll the instance saw
\* before it
GapToPrevious == Val(lastPoll).t - Val(pre.prev).t

\* the poll of the last step() is one _learn is to skip: one of the first 3
\* polls of its session, less than 5 minutes into the session, with a gap to
\* the previous poll that is not in (0, 15], or with fewer than 8 signals
\* emitted in the session before it
LearnGated ==
    /\ AdaptiveStepped
    /\ \/ Len(cal.session_polls) <= 3
       \/ SESSION_MIN - Val(lastPoll).sr < 5
       \/ ~IsNone(pre.prev) /\ (GapToPrevious <= 0 \/ GapToPrevious > GAP_THRESHOLD)
       \/ Len(cal.session_polls) - 1 < MAX_DELAY

\* C27: the learning step leaves gain, dead_zone, confidence, baseline_rate,
\* the observation count, the variance, estimated_delay and the delay buffer
\* unchanged on every poll that is among the first 3 of its session, has less
\* than 5 minutes of elapsed session time, has a gap to the previous poll of
\* 0 or less or of more than 15 minutes, or comes before 8 signals have been
\* emitted in the session.
C27_GatedPollsLearnNothing ==
    LearnGated => Project(cal, LearnedFields) = Project(pre, LearnedFields)

\* a repeated reading reaches an instance that has learned a gain and has
\* emitted 8 signals or more in the session
C27_Witness ==
    /\ LearnGated
    /\ ~IsNone(pre.prev)
    /\ GapToPrevious = 0
    /\ Len(cal.session_polls) - 1 >= MAX_DELAY
    /\ SESSION_MIN - Val(lastPoll).sr >= 5
    /\ pre.gain_obs_count > 0
    /\ Len(pre.delay_buf) > 0

\* the entry a learning step appends to the delay buffer: the observed rate
\* and the session's last MAX_DELAY signals, newest first
LearnEntry ==
    [ rate |-> LearnRate,
      sigs |-> [ d \in 1..MAX_DELAY |-> FromEnd(mid.signal_history, d) ] ]

\* C28: after any sequence of step() and reset() calls on an Adaptive
\* calibrator, 0.01 <= gain <= 1.5, 0.05 <= dead_zone <= 0.8,
\* 0 <= confidence <= 1, confidence is 0 until the first gain observation
\* and at most observation count / 20, estimated_delay is in 1..8,
\* gain_variance >= 0, the observation count never decreases, and the delay
\* buffer holds at most 60 entries of exactly 8 lagged signals each, the
\* oldest being evicted first.
C28_LearnedStateInBounds ==
    algo = "Adaptive" =>
        /\ GAIN_FLOOR <= cal.gain /\ cal.gain <= GAIN_CAP
        /\ DZ_MIN <= cal.dead_zone /\ cal.dead_zone <= DZ_MAX
        /\ 0 <= cal.confidence /\ cal.confidence <= ONE
        /\ cal.gain_obs_count = 0 => cal.confidence = 0
        /\ WARMUP_N * cal.confidence <= ONE * cal.gain_obs_count
        /\ cal.estimated_delay \in 1..MAX_DELAY
        /\ cal.gain_variance >= 0
        /\ cal.gain_obs_count >= pre.gain_obs_count
        /\ Len(cal.delay_buf) <= DELAY_BUF_SIZE
        /\ \A i \in 1..Len(cal.delay_buf) : DOMAIN cal.delay_buf[i].sigs = 1..MAX_DELAY
        /\ cal.delay_buf =
              IF ~LearnRan THEN pre.delay_buf
              ELSE IF Len(pre.delay_buf) < DELAY_BUF_SIZE
              THEN Append(pre.delay_buf, LearnEntry)
              ELSE Append(Tail(pre.delay_buf), LearnEntry)

\* a learning step on a full delay buffer evicts the oldest entry, with the
\* gain at its floor and a dead zone that has moved
C28_Witness ==
    /\ LearnRan
    /\ Len(pre.delay_buf) = DELAY_BUF_SIZE
    /\ cal.delay_buf = Append(Tail(pre.delay_buf), LearnEntry)
    /\ cal.delay_buf # pre.delay_buf
    /\ cal.gain = GAIN_FLOOR
    /\ cal.dead_zone # PRIOR_DZ
    /\ cal.gain_obs_count > WARMUP_N

\* the last step() was made by simulate_week_closed_loop and its learning
\* step ran
LearnRanInLoop == simCfg.loop = "closed" /\ sim.pc = "loop" /\ LearnRan

\* C29: whenever the learning step reads signal_history[-1..-8] or
\* signal_history[-estimated_delay], the history holds at least 8 entries and
\* estimated_delay is in 1..8, so the read is in range, and every signal read
\* is one step() returned for an earlier poll of the current session, the
\* signal at lag d being the one returned d polls before.
C29_LaggedReadsInSession ==
    LearnRanInLoop =>
        LET n == Len(sim.cals)
        IN  /\ Len(mid.signal_history) >= MAX_DELAY
            /\ Len(mid.signal_history) = Len(cal.session_polls) - 1
            /\ pre.estimated_delay \in 1..MAX_DELAY
            /\ cal.estimated_delay \in 1..MAX_DELAY
            /\ \A d \in 1..MAX_DELAY :
                  /\ d < Len(cal.session_polls)
                  /\ n - d >= 1
                  /\ sim.sessions[n - d] = sim.sessions[n]
                  /\ FromEnd(mid.signal_history, d) = sim.cals[n - d]

\* a learning step in the second session of the week or later, after a
\* session that ended with a signal other than 0, with a delay estimate
\* other than 1
C29_Witness ==
    /\ LearnRanInLoop
    /\ sim.session_num >= 2
    /\ cal.estimated_delay > 1
    /\ \E i \in 1..Len(sim.cals) :
          sim.sessions[i] < sim.session_num /\ sim.cals[i] # 0

\* C30: in closed loop, when the calibrator learns at poll k from the rate
\* between polls k-1 and k, the signal it holds at lag d, for d the user's
\* delay, is the signal the behaviour model looked up when it produced the
\* usage increment of poll k: the signal emitted d polls earlier in the same
\* session.
C30_LagAlignedWithBehaviorDelay ==
    (LearnRanInLoop /\ simObs.emitted /\ simObs.applied) =>
        /\ FromEnd(mid.signal_history, simCfg.profile.delay) = simObs.raw_cal
        /\ LearnEntry.sigs[simCfg.profile.delay] = simObs.raw_cal
        /\ cal.delay_buf[Len(cal.delay_buf)] = LearnEntry
        /\ simObs.raw_cal = sim.cals[Len(sim.cals) - simCfg.profile.delay]
        /\ Val(lastPoll).su = simObs.su_applied

\* the calibrator learns from a poll whose usage the user raised or lowered
\* after a signal seen 3 or 6 polls late, while the newest signal is another
C30_Witness ==
    /\ LearnRanInLoop
    /\ simObs.emitted
    /\ simObs.applied
    /\ simCfg.profile.delay > 1
    /\ simObs.rate_mult # ONE
    /\ simObs.raw_cal # FromEnd(mid.signal_history, 1)
    /\ FromEnd(mid.signal_history, simCfg.profile.delay) = simObs.raw_cal

\* C32: in every trace of the week simulator, detect_boundary on
\* consecutive polls is true at the first poll of each simulator session and
\* false at every other poll; the calibrator's boundary block runs at those
\* polls and no others, the polls at which the behaviour model's feedback
\* buffer starts empty and its fatigue counter at 0.
C32_BoundariesAreSessionStarts ==
    (sim.pc = "loop" /\ simObs.emitted) =>
        /\ detect_boundary(LastPoll, simObs.prev_poll) <=> simObs.started
        /\ simObs.started <=> simObs.poll_session # simObs.prev_poll_session
        /\ simObs.started <=> LastPoll.sr = SESSION_MIN
        /\ simCfg.loop = "closed" =>
              /\ lastPoll = simObs.poll
              /\ detect_boundary(LastPoll, pre.prev) <=> simObs.started
              /\ pre.prev = simObs.prev_poll
              /\ simObs.started <=> Len(sim.session_cals) = 1
              /\ simObs.started <=> Len(cal.session_polls) = 1
              /\ simObs.started => simObs.sat_before = 0

\* the first poll of a later session of a closed-loop week reaches a
\* calibrator that holds the polls of the session before
C32_Witness ==
    /\ sim.pc = "loop" /\ simObs.emitted
    /\ simCfg.loop = "closed"
    /\ simObs.started
    /\ sim.session_num >= 2
    /\ ~IsNone(pre.prev)
    /\ Len(pre.session_polls) > 1
    /\ detect_boundary(LastPoll, pre.prev)

\* the values session_remaining takes in a poll
PolledRemaining == { POLL_INTERVAL * k : k \in 1..(SESSION_MIN \div POLL_INTERVAL) }

\* the state of the session between two ticks of a week: open with
\* session_remaining in 5..300, or closed with nothing used and nothing left
SessionShape ==
    sim.pc = "loop" =>
        /\ sim.in_session => sim.sr \in PolledRemaining /\ sim.session_num >= 1
        /\ ~sim.in_session => sim.sr = 0 /\ sim.su = 0
        /\ simObs.emitted <=> (sim.in_session /\ sim.tick > 0)
        /\ simObs.emitted => LastPoll.sr = sim.sr /\ LastPoll.sr \in PolledRemaining
        /\ sim.session_num = 0 => sim.last_session_end = -9999 /\ ~sim.in_session
        /\ sim.session_num > 0 => sim.last_session_end <= sim.tick * POLL_INTERVAL

\* what one tick does to the session: t is the tick's time
SessionTick(t) ==
    /\ sim'.session_num \in { sim.session_num, sim.session_num + 1 }
    /\ sim'.session_num = sim.session_num + 1 =>
          /\ ~sim.in_session /\ sim'.in_session
          /\ IsActive(t)
          /\ sim'.sr = SESSION_MIN
          /\ sim'.su = Min(PCT100, Max(0, Mul(simObs'.base_delta, simObs'.rate_mult)))
          /\ sim.session_num > 0 => t - sim.last_session_end >= 10
          /\ sim'.last_session_end = sim.last_session_end
    /\ (sim.in_session /\ sim.sr > POLL_INTERVAL) =>
          /\ sim'.in_session
          /\ sim'.sr = sim.sr - POLL_INTERVAL
          /\ sim'.session_num = sim.session_num
          /\ sim'.last_session_end = sim.last_session_end
    /\ (sim.in_session /\ sim.sr <= POLL_INTERVAL) =>
          /\ ~sim'.in_session
          /\ sim'.sr = 0 /\ sim'.su = 0
          /\ sim'.last_session_end = t
          /\ sim'.session_num = sim.session_num
          /\ sim'.n_polls = sim.n_polls /\ sim'.polls = sim.polls
          /\ ~simObs'.emitted
    /\ (~sim.in_session /\ sim'.session_num = sim.session_num) =>
          /\ ~sim'.in_session
          /\ sim'.last_session_end = sim.last_session_end
          /\ sim'.polls = sim.polls

\* C33: on every tick of a week at most one session is open; a session
\* starts only on a tick inside the active window, with nothing used and
\* session_remaining 300; session_remaining drops by 5 per tick and the
\* session ends, with session_usage back at 0, on the tick it reaches 0, on
\* which no poll is emitted (every poll has session_remaining in 5, 10, ..,
\* 300); a later session starts no less than 10 minutes after the session
\* before it ended, so never on the tick a session ends.
C33_SessionLifecycle ==
    [][ /\ SessionShape'
        /\ (sim.pc = "loop" /\ sim'.pc = "loop") =>
              SessionTick(sim.tick * POLL_INTERVAL) ]_vars

\* a later session starts two ticks after the session before it ended
C33_Witness ==
    /\ sim.pc = "loop"
    /\ simObs.started
    /\ sim.session_num >= 2
    /\ (sim.tick - 1) * POLL_INTERVAL - sim.last_session_end = 10
    /\ LastPoll.sr = SESSION_MIN
    /\ LastPoll.su > 0

\* C34: the week simulator emits a poll on exactly the ticks on which the
\* behaviour model draws and applies a usage increment (a session is open
\* and the hour is inside the active window), and on no other tick.
C34_PollOnlyOnActiveTicks ==
    (sim.pc = "loop" /\ sim.tick > 0) =>
        /\ simObs.emitted <=> simObs.applied
        /\ simObs.emitted => IsActive(LastPoll.t)

\* session usage added by the last tick, which emitted a poll
SessionIncrease ==
    IF simObs.started \/ IsNone(simObs.prev_poll) THEN LastPoll.su
    ELSE LastPoll.su - PrevPoll.su

\* weekly usage added by the last tick, which emitted a poll
WeeklyIncrease ==
    IF IsNone(simObs.prev_poll) THEN LastPoll.wu ELSE LastPoll.wu - PrevPoll.wu

\* C35: on every tick the increment is clamped so that both budgets stay at
\* or below 100 and the same clamped increment feeds both: the increase of
\* weekly_usage on a tick is EXCHANGE_RATE times the increase of
\* session_usage on that tick, so session_usage stops growing once
\* weekly_usage has reached 100.
C35_SameIncrementFeedsBoth ==
    (sim.pc = "loop" /\ simObs.emitted) =>
        /\ LastPoll.su <= PCT100 /\ LastPoll.wu <= PCT100
        /\ WeeklyIncrease = Mul(SessionIncrease, EXCHANGE_RATE)
        /\ (~IsNone(simObs.prev_poll) /\ PrevPoll.wu = PCT100) => SessionIncrease = 0

\* regular polls a session of heavy use may start with
QuietBurst == 6

\* polls of a user who keeps to the pace
MaxQuiet == 6

\* session usage a user who keeps to the pace may add between two polls
PaceDeltas == { 50 * k : k \in 0..60 }

\* the start of a session polled every POLL_INTERVAL
FeedBurst ==
    /\ nFree = 0
    /\ nWarm < QuietBurst
    /\ Feed(IF IsNone(lastPoll) THEN FirstPoll
            ELSE Later(Val(lastPoll), POLL_INTERVAL, scen.tick))
    /\ nWarm' = nWarm + 1
    /\ UNCHANGED nFree

\* a regular poll of a user who keeps to the pace: the usage added since the
\* poll before puts the velocity estimate within NOISE_FLOOR of the optimal
\* rate
FeedOnPace ==
    /\ nWarm >= 2
    /\ nFree < MaxQuiet
    /\ \E d \in PaceDeltas :
          LET poll == Later(Val(lastPoll), POLL_INTERVAL, d)
          IN  /\ Abs(AdaptivePaceError(WithEma(Append1(cal, poll), poll), poll))
                    < NOISE_FLOOR
              /\ Feed(poll)
    /\ nFree' = nFree + 1
    /\ UNCHANGED nWarm

QuietInit == CalInit({ "Adaptive" })

QuietNext ==
    \/ FeedBurst
    \/ FeedOnPace

\* an Adaptive calibrator polled through a session in which heavy use gives
\* way to use at the pace
SpecQuiet == QuietInit /\ [][QuietNext]_vars

\* the pace error of the i-th poll of the current session: _pace_error on
\* the poll and the velocity estimate of the session's polls up to it
ErrorAt(i) ==
    AdaptivePaceError([ ema |-> ema_velocity(SubSeq(cal.session_polls, 1, i)) ],
                      cal.session_polls[i])

\* the pace error was below the noise floor at each of the session's last k
\* polls
QuietRun(k) ==
    /\ AdaptiveStepped
    /\ k <= Len(cal.session_polls)
    /\ \A i \in (Len(cal.session_polls) - k + 1)..Len(cal.session_polls) :
          Abs(ErrorAt(i)) < NOISE_FLOOR

\* s moved toward 0 by MAX_DELTA_C, or 0 when s is closer to 0 than that
TowardZero(s) ==
    IF Abs(s) <= MAX_DELTA_C THEN 0
    ELSE IF s > 0 THEN s - MAX_DELTA_C ELSE s + MAX_DELTA_C

\* C31: while the pace error stays below the noise floor on consecutive polls
\* of one session, the Adaptive calibrator's output moves toward 0 by 0.2 per
\* poll, or to 0 when it is closer than that, and is 0 from the 5th such
\* poll on at the latest.
C31_QuietSignalDecays ==
    QuietRun(1) =>
        /\ ErrorAt(Len(cal.session_polls)) = StepError
        /\ out = TowardZero(mid.prev_signal)
        /\ cal.prev_signal = out
        /\ QuietRun(5) => out = 0

\* the fifth poll in a row with a pace error below the noise floor, after a
\* signal above 0.8 in magnitude: the output reaches 0 at this poll
C31_Witness ==
    /\ QuietRun(5)
    /\ ~QuietRun(6)
    /\ out = 0
    /\ mid.prev_signal # 0
    /\ \E i \in 1..Len(cal.session_polls) : ErrorAt(i) # 0 /\ Abs(ErrorAt(i)) < NOISE_FLOOR

\* the step algorithms that keep the velocity EMA as a field
EmaKeepers == { "Current", "Path A", "SoftThrot", "Adaptive" }

\* the locals of a batch function that its calibrator keeps as fields of
\* the same names
BatchState(aname) ==
    CASE aname \in { "Current", "Path A", "MultiBurn", "TriBlend", "SoftThrot" } ->
            { "session_polls" }
      [] aname = "Path B" -> { }
      [] aname = "Holt" -> { "session_polls", "s", "b" }
      [] aname = "AlphaBeta" -> { "x", "v", "last_t" }
      [] aname = "PID" -> { "integral", "prev_error" }
      [] aname = "PACE" -> { "session_polls", "lam", "cum_grad_sq" }
      [] aname = "Gradient" -> { "session_polls", "m", "cum_grad_sq" }
      [] aname = "Cascade" ->
            { "session_polls", "outer_integral", "dynamic_target", "poll_counter" }
      [] aname = "PB+Pipe" -> { "zone", "prev_output" }

\* C36: after every poll of a list, the batch algorithm's last signal is the
\* value step() of a new calibrator of the same name returned for that poll,
\* and the function's locals are the calibrator's fields; and the ema field of
\* the Current, Path A, SoftThrot and Adaptive calibrators is
\* ema_velocity() of their session window
C36_BatchEqualsStep ==
    lastOp = "step" =>
        /\ batch.on =>
              /\ batch.cal = out
              /\ batch.prev = lastPoll
              /\ \A f \in BatchState(algo) : batch.L[f] = cal[f]
        /\ algo \in EmaKeepers => cal.ema = ema_velocity(cal.session_polls)

\* a batch algorithm and its calibrator in their second session of a list,
\* two polls into it, after a session of three or more polls: both return
\* the same signal, which is not zero and differs from the signal before
C36_Witness ==
    /\ batch.on
    /\ algo \in EmaKeepers
    /\ nBound = 2
    /\ batch.n >= 5
    /\ Len(cal.session_polls) = 2
    /\ ~IsNone(cal.ema)
    /\ batch.cal = out
    /\ out # 0
    /\ out # prevOut

\* the minutes between the polls j - 1 and j of a session window
PairInterval(sp, j) == sp[j].t - sp[j - 1].t

\* the indices j of a session window whose poll comes more than 0 and at
\* most 15 minutes after the poll before it
ValidPairs(sp) ==
    { j \in 2..Len(sp) : 0 < PairInterval(sp, j) /\ PairInterval(sp, j) <= 15 }

\* session usage per minute between the polls j - 1 and j
InstantRate(sp, j) == Div(sp[j].su - sp[j - 1].su, PairInterval(sp, j))

\* what the claim lets an estimate be after the last poll of the window sp,
\* when before was the estimate over the polls before it
EstimateAfter(sp, before) ==
    IF Len(sp) \notin ValidPairs(sp) THEN before
    ELSE IF IsNone(before) THEN Some(InstantRate(sp, Len(sp)))
    ELSE Some(Div(300 * InstantRate(sp, Len(sp)) + 700 * Val(before), ONE))

\* C37: after every step(), ema_velocity() of the session window, and the
\* ema field of the calibrators that keep one, is None exactly when the
\* window holds no pair of consecutive polls more than 0 and at most 15
\* minutes apart; from the second poll of a session on, a last pair outside
\* that range leaves the estimate what it was over the polls before, the
\* first pair in range makes it that pair's rate, and a later pair in range
\* makes it 0.3 of the pair's rate plus 0.7 of the estimate before
C37_EstimateFollowsValidPairs ==
    lastOp = "step" =>
        /\ IsNone(ema_velocity(cal.session_polls)) <=> ValidPairs(cal.session_polls) = { }
        /\ Len(cal.session_polls) >= 2 =>
              ema_velocity(cal.session_polls)
                 = EstimateAfter(cal.session_polls,
                                 ema_velocity(SubSeq(cal.session_polls, 1,
                                                     Len(cal.session_polls) - 1)))
        /\ algo \in EmaKeepers =>
              /\ IsNone(cal.ema) <=> ValidPairs(cal.session_polls) = { }
              /\ Len(cal.session_polls) >= 2 =>
                    cal.ema = EstimateAfter(cal.session_polls, mid.ema)

\* a session window with a pair 20 minutes apart and a pair 0 minutes apart,
\* both after pairs in range, and a last pair in range that moved the
\* estimate
C37_Witness ==
    /\ lastOp = "step"
    /\ algo \in EmaKeepers
    /\ Len(cal.session_polls) \in ValidPairs(cal.session_polls)
    /\ \E j, k \in 3..(Len(cal.session_polls) - 1) :
          /\ PairInterval(cal.session_polls, j) > 15
          /\ PairInterval(cal.session_polls, k) = 0
    /\ ~IsNone(mid.ema)
    /\ cal.ema # mid.ema
    /\ cal.ema # Some(InstantRate(cal.session_polls, Len(cal.session_polls)))

\* the velocity estimate the last step() handed to the rate ratio: the ema
\* field of Current and Adaptive, Holt's level s, AlphaBeta's velocity v
StepVelocity ==
    CASE algo \in { "Current", "Adaptive" } -> cal.ema
      [] algo = "Holt" -> cal.s
      [] algo = "AlphaBeta" -> cal.v

\* minutes of the session elapsed at the last poll
StepElapsed == SESSION_MIN - Val(lastPoll).sr

\* the optimal rate of the last poll
StepOptimal ==
    OptimalRate(Val(lastPoll), session_target(weekly_deviation(Val(lastPoll))))

\* the non-negative velocity the claim compares with the optimal rate: the
\* estimate, or usage / max(elapsed, 0.1) when there is none
StepVel ==
    Max(0, IF IsNone(StepVelocity)
           THEN Div(Val(lastPoll).su * 10, Max(10 * StepElapsed, 1))
           ELSE Val(StepVelocity))

\* what the computation divides by on the path it takes for the last poll,
\* in tenths of a minute and in rate units: max(sr, 0.1), then
\* max(elapsed, 0.1) when the session average stands in for the estimate,
\* then the optimal rate when the ratio is taken
StepDivisors ==
    { Max(10 * Val(lastPoll).sr, 1) }
    \cup (IF IsNone(StepVelocity) /\ StepElapsed >= 5
          THEN { Max(10 * StepElapsed, 1) } ELSE { })
    \cup (IF algo # "Adaptive" /\ ~(IsNone(StepVelocity) /\ StepElapsed < 5)
             /\ StepOptimal >= 1
          THEN { StepOptimal } ELSE { })

\* C38: a step() of Current, Holt or AlphaBeta returns 0 for a poll with
\* session_remaining <= 0, and 0 when there is no velocity estimate less than
\* 5 minutes into the session; otherwise the velocity is the estimate, or
\* usage / max(elapsed, 0.1) when there is none, floored at 0, and the value
\* returned is 1 or 0 as that velocity is positive or not when the optimal
\* rate is below 1e-6, and the clamped (velocity - optimal) / optimal
\* otherwise. The pace error of Adaptive is 0 in the first two cases, which
\* makes the step move the signal toward 0, and velocity - optimal in the
\* others. Nothing is divided by 0.
C38_RateRatioGuarded ==
    (lastOp = "step" /\ algo \in RateAlgos) =>
        /\ 0 \notin StepDivisors
        /\ (Val(lastPoll).sr <= 0 \/ (IsNone(StepVelocity) /\ StepElapsed < 5)) =>
              IF algo = "Adaptive"
              THEN StepError = 0 /\ out = TowardZero(mid.prev_signal)
              ELSE out = 0
        /\ (Val(lastPoll).sr > 0 /\ ~(IsNone(StepVelocity) /\ StepElapsed < 5)) =>
              IF algo = "Adaptive" THEN StepError = StepVel - StepOptimal
              ELSE IF StepOptimal < 1 THEN out = (IF StepVel > 0 THEN ONE ELSE 0)
              ELSE out = Clamp(-ONE, ONE, Div((StepVel - StepOptimal) * ONE, StepOptimal))

\* the Current calibrator with usage beyond the session target and a
\* positive velocity estimate: the optimal rate is 0 and the step returns 1
C38_Witness ==
    /\ lastOp = "step"
    /\ algo = "Current"
    /\ Val(lastPoll).sr > 0
    /\ StepOptimal = 0
    /\ ~IsNone(StepVelocity)
    /\ StepVel > 0
    /\ out = ONE

\* ------------------------------------------------------------------------
\* The drivers: run_closed_loop and run_open_loop hand the weeks to a pool
\* of workers and reduce what the workers return
\* ------------------------------------------------------------------------

\* the sum of a list
RECURSIVE SumSeq(_, _)
SumSeq(xs, n) == IF n = 0 THEN 0 ELSE xs[n] + SumSeq(xs, n - 1)

\* np.mean of a non-empty list
Mean(xs) == Div(SumSeq(xs, Len(xs)), Len(xs))

\* np.std of a non-empty list; the deviations are squared in hundredths of
\* a percent
Std(xs) ==
    LET m == Mean(xs)
        sq == [ i \in 1..Len(xs) |-> Div(xs[i] - m, 10) * Div(xs[i] - m, 10) ]
    IN  10 * Sqrt(Mean(sq))

\* a percentile taken of the list as it stands
percentile_unsorted(xs, q) ==
    LET n == Len(xs)
        lo == (q * (n - 1)) \div 100
        fr == (q * (n - 1)) % 100
    IN  IF lo + 1 >= n THEN xs[n]
        ELSE xs[lo + 1] + Div((xs[lo + 2] - xs[lo + 1]) * fr, 100)

\* np.percentile(xs, q): the list is sorted and the value at position
\* q/100 * (n - 1) interpolated between its neighbours
percentile(xs, q) ==
    LET s == SortSeq(xs, LAMBDA a, b : a < b)
        n == Len(s)
        lo == (q * (n - 1)) \div 100
        fr == (q * (n - 1)) % 100
    IN  IF lo + 1 >= n THEN s[n]
        ELSE s[lo + 1] + Div((s[lo + 2] - s[lo + 1]) * fr, 100)

\* abs of every element
AbsAll(c) == [ i \in 1..Len(c) |-> Abs(c[i]) ]

\* np.abs(np.diff(c))
AbsDiff(c) == [ i \in 1..(Len(c) - 1) |-> Abs(c[i + 1] - c[i]) ]

\* np.mean(np.abs(c) > 0.9) * 100, in thousandths of a percent
Saturation(c) ==
    Div(100 * ONE * Cardinality({ i \in 1..Len(c) : Abs(c[i]) > 900 }), Len(c))

\* the loop of compute_cl_stats over the polls: mid_count, the number of
\* mid_jumps above 0.4, and prev_mid_cal
RECURSIVE MidScan(_, _, _)
MidScan(polls, c, j) ==
    IF j = 0 THEN [ mid_count |-> 0, spike_count |-> 0, prev_mid_cal |-> None ]
    ELSE LET a == MidScan(polls, c, j - 1)
             p == polls[j]
             elapsed == SESSION_MIN - p.sr
         IN  IF elapsed > 30 /\ p.sr > 30
             THEN [ mid_count |-> a.mid_count + 1,
                    spike_count |->
                        IF ~IsNone(a.prev_mid_cal)
                           /\ Abs(c[j] - Val(a.prev_mid_cal)) > 400
                        THEN a.spike_count + 1 ELSE a.spike_count,
                    prev_mid_cal |-> Some(c[j]) ]
             ELSE [ a EXCEPT !.prev_mid_cal = None ]

\* compute_cl_stats past its guard
ClRunStats(polls, c, scan) ==
    [ final_wu |-> polls[Len(polls)].wu,
      cal_mean_abs |-> Mean(AbsAll(c)),
      cal_smoothness |-> IF Len(c) > 1 THEN Mean(AbsDiff(c)) ELSE 0,
      saturation_pct |-> Saturation(c),
      mid_spike_rate |-> Div(scan.spike_count * 60 * ONE,
                             Max(scan.mid_count * POLL_INTERVAL, 60)) ]

\* a reduction that has no record for a week of exactly ten polls
compute_cl_stats_above_ten(polls, cals) ==
    IF Len(polls) <= 10 THEN None
    ELSE Some(ClRunStats(polls, cals, MidScan(polls, cals, Len(polls))))

\* compute_cl_stats: None, or Some(the week's CLRunStats)
compute_cl_stats(polls, cals) ==
    IF Len(polls) < 10 THEN None
    ELSE Some(ClRunStats(polls, cals, MidScan(polls, cals, Len(polls))))

\* one field of every record of a list
Field(stats_list, f) == [ i \in 1..Len(stats_list) |-> stats_list[i][f] ]

\* aggregate_cl: None, or Some(the CLAgg of the list)
aggregate_cl(stats_list) ==
    IF stats_list = << >> THEN None
    ELSE Some([ mean_final_wu |-> Mean(Field(stats_list, "final_wu")),
                std_final_wu |-> Std(Field(stats_list, "final_wu")),
                p10_final_wu |-> percentile(Field(stats_list, "final_wu"), 10),
                cal_mean_abs |-> Mean(Field(stats_list, "cal_mean_abs")),
                cal_smoothness |-> Mean(Field(stats_list, "cal_smoothness")),
                saturation_pct |-> Mean(Field(stats_list, "saturation_pct")),
                mid_spike_rate |-> Mean(Field(stats_list, "mid_spike_rate")) ])

\* compute_stats: None, or Some(the week's Stats); of its thirteen fields,
\* which aggregate reduces alike, mean_abs and saturation_pct are kept
compute_stats(polls, cals_list) ==
    IF Len(cals_list) < 10 THEN None
    ELSE Some([ mean_abs |-> Mean(AbsAll(cals_list)),
                saturation_pct |-> Saturation(cals_list) ])

\* aggregate: the mean of every field
aggregate(stats_list) ==
    IF stats_list = << >> THEN None
    ELSE Some([ mean_abs |-> Mean(Field(stats_list, "mean_abs")),
                saturation_pct |-> Mean(Field(stats_list, "saturation_pct")) ])

EdgeCoverage(tail_danger, startup_spike, weekly_extreme, total_polls) ==
    [ tail_danger |-> tail_danger, startup_spike |-> startup_spike,
      weekly_extreme |-> weekly_extreme, total_polls |-> total_polls ]

\* compute_edge_coverage
compute_edge_coverage(polls, cals) ==
    EdgeCoverage(
        Cardinality({ j \in 1..Len(polls) :
                        /\ polls[j].sr < 30
                        /\ session_target(weekly_deviation(polls[j])) - polls[j].su
                              > 20000 }),
        Cardinality({ j \in 1..Len(polls) :
                        SESSION_MIN - polls[j].sr < 30 /\ Abs(cals[j]) > 700 }),
        Cardinality({ j \in 1..Len(polls) : Abs(weekly_deviation(polls[j])) > 800 }),
        Len(polls))

\* a week of n polls, five minutes apart from minute 600 on, in a session
\* with sr minutes left at the first, at a weekly usage wu, the calibrator
\* answering hi and -hi/2 in turn
Week(n, sr, wu, hi) ==
    [ polls |-> [ i \in 1..n |->
                    Poll(600 + POLL_INTERVAL * i, 1000 * i,
                         sr - POLL_INTERVAL * (i - 1), wu,
                         WEEK_MIN - 600 - POLL_INTERVAL * i) ],
      cals |-> [ i \in 1..n |-> IF i % 2 = 0 THEN hi ELSE -(hi \div 2) ] ]

\* the weeks a closed-loop worker may simulate: no poll, nine, ten and
\* twelve polls
ClosedWeeks ==
    { Week(0, 300, 0, 0), Week(9, 300, 20000, 950),
      Week(10, 300, 40000, 950), Week(12, 100, 90000, 300) }

\* the weeks an open-loop worker may simulate: nineteen, twenty and
\* twenty-one polls
OpenWeeks ==
    { Week(19, 300, 20000, 950), Week(20, 100, 40000, 950),
      Week(21, 300, 90000, 750) }

\* the calibrators of a run, in the order of STEP_ALGORITHMS
ClosedAlgos == { "No Feedback", "Current" }

\* the algorithms of an open-loop run
OpenAlgos == { "Current", "Path A" }

\* the signals an algorithm gives on a week: none from No Feedback, the
\* week's from Current, half of them from Path A
WeekCals(week, aname) ==
    [ i \in 1..Len(week.cals) |->
        IF aname = "No Feedback" THEN 0
        ELSE IF aname = "Current" THEN week.cals[i]
        ELSE Div(week.cals[i], 2) ]

\* tasks of run_closed_loop, in the order of its list
ClosedTaskList ==
    << [ cname |-> "Attentive", pname |-> "Steady", seed |-> 0 ],
       [ cname |-> "Attentive", pname |-> "Heavy",  seed |-> 0 ],
       [ cname |-> "Casual",    pname |-> "Steady", seed |-> 0 ],
       [ cname |-> "Casual",    pname |-> "Heavy",  seed |-> 0 ] >>

\* tasks of run_open_loop, in the order of its list
OpenTaskList ==
    << [ pname |-> "Steady", seed |-> 0 ], [ pname |-> "Steady", seed |-> 1 ],
       [ pname |-> "Heavy",  seed |-> 0 ], [ pname |-> "Heavy",  seed |-> 1 ] >>

SeqRange(s) == { s[i] : i \in 1..Len(s) }

RunCompliances == << "Attentive", "Casual" >>

RunProfiles == << "Steady", "Heavy" >>

\* _cl_worker: the statistics of the task's week under every calibrator
cl_worker(weeks, task) ==
    [ cname |-> task.cname,
      algo_results |->
          [ aname \in ClosedAlgos |->
              compute_cl_stats(weeks[task].polls, WeekCals(weeks[task], aname)) ] ]

\* _ol_worker: None for a week of fewer than 20 polls, else the statistics
\* and the edge coverage of the task's week under every algorithm
ol_worker(weeks, task) ==
    [ pname |-> task.pname,
      algo_results |->
          IF Len(weeks[task].polls) < 20 THEN None
          ELSE Some([ aname \in OpenAlgos |->
                        [ st |-> compute_stats(weeks[task].polls,
                                               WeekCals(weeks[task], aname)),
                          ec |-> compute_edge_coverage(weeks[task].polls,
                                                       WeekCals(weeks[task], aname)) ] ]) ]

\* a loop body that keeps the newest result only
CollectClosedKeepsLast(r, task, res) ==
    [ r EXCEPT !.todo = @ \ { task },
               !.yielded = Append(@, task),
               !.results[res.cname] =
                   [ aname \in ClosedAlgos |->
                       IF ~IsNone(res.algo_results[aname])
                       THEN << Val(res.algo_results[aname]) >>
                       ELSE @[aname] ] ]

\* the body of run_closed_loop's loop over the pool's results
CollectClosed(r, task, res) ==
    [ r EXCEPT !.todo = @ \ { task },
               !.yielded = Append(@, task),
               !.results[res.cname] =
                   [ aname \in ClosedAlgos |->
                       IF ~IsNone(res.algo_results[aname])
                       THEN Append(@[aname], Val(res.algo_results[aname]))
                       ELSE @[aname] ] ]

\* cc.tail_danger += ec.tail_danger, and so on
AddCoverage(cc, ec) ==
    EdgeCoverage(cc.tail_danger + ec.tail_danger,
                 cc.startup_spike + ec.startup_spike,
                 cc.weekly_extreme + ec.weekly_extreme,
                 cc.total_polls + ec.total_polls)

\* the body of run_open_loop's loop over the pool's results
CollectOpen(r, task, res) ==
    IF IsNone(res.algo_results)
    THEN [ r EXCEPT !.todo = @ \ { task }, !.yielded = Append(@, task) ]
    ELSE [ r EXCEPT !.todo = @ \ { task },
                    !.yielded = Append(@, task),
                    !.results[res.pname] =
                        [ aname \in OpenAlgos |->
                            IF ~IsNone(Val(res.algo_results)[aname].st)
                            THEN Append(@[aname], Val(Val(res.algo_results)[aname].st))
                            ELSE @[aname] ],
                    !.coverage[res.pname] =
                        [ aname \in OpenAlgos |->
                            AddCoverage(@[aname], Val(res.algo_results)[aname].ec) ] ]

\* the lists of a sequence of lists, one after the other
RECURSIVE Flatten(_, _)
Flatten(lists, n) == IF n = 0 THEN << >> ELSE Flatten(lists, n - 1) \o lists[n]

\* the aggregates of a sequence that are not None
RECURSIVE NotNone(_, _)
NotNone(opts, n) ==
    IF n = 0 THEN << >>
    ELSE IF IsNone(opts[n]) THEN NotNone(opts, n - 1)
    ELSE Append(NotNone(opts, n - 1), Val(opts[n]))

\* run_closed_loop is called: results holds an empty list for every
\* compliance profile and calibrator, and the tasks go to the pool
CallRunClosed ==
    /\ run.pc = "start"
    /\ run.loop = "closed"
    /\ run' = [ run EXCEPT
                  !.pc = "pool",
                  !.todo = SeqRange(ClosedTaskList),
                  !.results = [ cname \in SeqRange(RunCompliances) |->
                                  [ aname \in ClosedAlgos |-> << >> ] ] ]
    /\ UNCHANGED << calVars, dbVars, simVars, batch >>

\* pool.imap_unordered hands over the result of a task, whichever is ready
YieldClosed ==
    /\ run.pc = "pool"
    /\ run.loop = "closed"
    /\ \E task \in run.todo :
          run' = CollectClosed(run, task, cl_worker(run.weeks, task))
    /\ UNCHANGED << calVars, dbVars, simVars, batch >>

\* the tables of run_closed_loop: per compliance profile, and overall
ReduceClosed ==
    /\ run.pc = "pool"
    /\ run.loop = "closed"
    /\ run.todo = { }
    /\ run' = [ run EXCEPT
                  !.pc = "done",
                  !.aggs = [ cname \in SeqRange(RunCompliances) |->
                               [ aname \in ClosedAlgos |->
                                   aggregate_cl(run.results[cname][aname]) ] ],
                  !.overall =
                      [ aname \in ClosedAlgos |->
                          LET combined ==
                                Flatten([ k \in 1..Len(RunCompliances) |->
                                            run.results[RunCompliances[k]][aname] ],
                                        Len(RunCompliances))
                          IN  IF combined # << >> THEN aggregate_cl(combined)
                              ELSE None ] ]
    /\ UNCHANGED << calVars, dbVars, simVars, batch >>

\* run_open_loop is called
CallRunOpen ==
    /\ run.pc = "start"
    /\ run.loop = "open"
    /\ run' = [ run EXCEPT
                  !.pc = "pool",
                  !.todo = SeqRange(OpenTaskList),
                  !.results = [ pname \in SeqRange(RunProfiles) |->
                                  [ aname \in OpenAlgos |-> << >> ] ],
                  !.coverage = [ pname \in SeqRange(RunProfiles) |->
                                   [ aname \in OpenAlgos |->
                                       EdgeCoverage(0, 0, 0, 0) ] ] ]
    /\ UNCHANGED << calVars, dbVars, simVars, batch >>

YieldOpen ==
    /\ run.pc = "pool"
    /\ run.loop = "open"
    /\ \E task \in run.todo :
          run' = CollectOpen(run, task, ol_worker(run.weeks, task))
    /\ UNCHANGED << calVars, dbVars, simVars, batch >>

\* the tables of run_open_loop: per profile, and overall the aggregate of
\* the profiles' aggregates
ReduceOpen ==
    /\ run.pc = "pool"
    /\ run.loop = "open"
    /\ run.todo = { }
    /\ LET all_results == [ pname \in SeqRange(RunProfiles) |->
                              [ aname \in OpenAlgos |->
                                  aggregate(run.results[pname][aname]) ] ]
       IN  run' = [ run EXCEPT
                      !.pc = "done",
                      !.aggs = all_results,
                      !.overall =
                          [ aname \in OpenAlgos |->
                              LET combined ==
                                    NotNone([ k \in 1..Len(RunProfiles) |->
                                                all_results[RunProfiles[k]][aname] ],
                                            Len(RunProfiles))
                              IN  IF combined # << >> THEN aggregate(combined)
                                  ELSE None ] ]
    /\ UNCHANGED << calVars, dbVars, simVars, batch >>

\* a run before its driver is called; the weeks its workers will simulate
\* are the run's inputs
RunInit ==
    /\ \E loop \in { "closed", "open" } :
          \E weeks \in IF loop = "closed"
                       THEN [ SeqRange(ClosedTaskList) -> ClosedWeeks ]
                       ELSE [ SeqRange(OpenTaskList) -> OpenWeeks ] :
             run = [ pc |-> "start", loop |-> loop, weeks |-> weeks,
                     todo |-> { }, yielded |-> << >>, results |-> << >>,
                     coverage |-> << >>, aggs |-> << >>, overall |-> << >> ]
    /\ algo = "No Feedback"
    /\ scen = CHOOSE s \in Scenarios : s.t0 = 600
    /\ cal = NewCal /\ pre = NewCal /\ mid = NewCal /\ twin = NewCal
    /\ out = 0 /\ prevOut = 0 /\ twinOut = 0
    /\ lastPoll = None /\ lastOp = "new"
    /\ nWarm = 0 /\ nFree = 0 /\ nBound = 0
    /\ batch = BatchOff
    /\ DbIdle
    /\ SimIdle

RunNext ==
    \/ CallRunClosed
    \/ YieldClosed
    \/ ReduceClosed
    \/ CallRunOpen
    \/ YieldOpen
    \/ ReduceOpen

SpecRun == RunInit /\ [][RunNext]_vars


\* the tasks the pool has handed over so far
Yielded == SeqRange(run.yielded)

\* two lists hold the same elements the same number of times
SameBag(s, t) ==
    /\ Len(s) = Len(t)
    /\ \A i \in 1..Len(s) :
          Cardinality({ j \in 1..Len(s) : s[j] = s[i] })
              = Cardinality({ j \in 1..Len(t) : t[j] = s[i] })

\* the list results[cname][aname] holds when the first n tasks of the task
\* list, those of them in `done`, are collected in the order of the list
RECURSIVE ClosedInOrder(_, _, _, _)
ClosedInOrder(done, cname, aname, n) ==
    IF n = 0 THEN << >>
    ELSE LET task == ClosedTaskList[n]
             st == compute_cl_stats(run.weeks[task].polls,
                                    WeekCals(run.weeks[task], aname))
         IN  IF task \in done /\ task.cname = cname /\ ~IsNone(st)
             THEN Append(ClosedInOrder(done, cname, aname, n - 1), Val(st))
             ELSE ClosedInOrder(done, cname, aname, n - 1)

\* the same for per_profile_algo[pname][aname] of run_open_loop
RECURSIVE OpenInOrder(_, _, _, _)
OpenInOrder(done, pname, aname, n) ==
    IF n = 0 THEN << >>
    ELSE LET task == OpenTaskList[n]
             st == compute_stats(run.weeks[task].polls,
                                 WeekCals(run.weeks[task], aname))
         IN  IF /\ task \in done /\ task.pname = pname
                /\ Len(run.weeks[task].polls) >= 20 /\ ~IsNone(st)
             THEN Append(OpenInOrder(done, pname, aname, n - 1), Val(st))
             ELSE OpenInOrder(done, pname, aname, n - 1)

\* the same for per_profile_coverage[pname][aname]
RECURSIVE CoverageInOrder(_, _, _, _)
CoverageInOrder(done, pname, aname, n) ==
    IF n = 0 THEN EdgeCoverage(0, 0, 0, 0)
    ELSE LET task == OpenTaskList[n]
         IN  IF /\ task \in done /\ task.pname = pname
                /\ Len(run.weeks[task].polls) >= 20
             THEN AddCoverage(CoverageInOrder(done, pname, aname, n - 1),
                              compute_edge_coverage(run.weeks[task].polls,
                                                    WeekCals(run.weeks[task], aname)))
             ELSE CoverageInOrder(done, pname, aname, n - 1)

\* the overall list of run_closed_loop for in-order completion
ClosedCombinedInOrder(aname) ==
    Flatten([ k \in 1..Len(RunCompliances) |->
                ClosedInOrder(SeqRange(ClosedTaskList), RunCompliances[k], aname,
                              Len(ClosedTaskList)) ],
            Len(RunCompliances))

\* the overall list of run_open_loop for in-order completion
OpenCombinedInOrder(aname) ==
    NotNone([ k \in 1..Len(RunProfiles) |->
                aggregate(OpenInOrder(SeqRange(OpenTaskList), RunProfiles[k], aname,
                                      Len(OpenTaskList))) ],
            Len(RunProfiles))

\* every task is handed over once
EachTaskOnce ==
    /\ Len(run.yielded) = Cardinality(Yielded)
    /\ Yielded \cap run.todo = { }
    /\ Yielded \cup run.todo
          = IF run.loop = "closed" THEN SeqRange(ClosedTaskList)
            ELSE SeqRange(OpenTaskList)

\* C16: in whatever order the pool hands the tasks' results over, each
\* per-(compliance, algorithm) list of run_closed_loop and each
\* per-(profile, algorithm) list of run_open_loop holds the results of
\* exactly the tasks handed over so far that belong to it, each once, the
\* edge-coverage counters are the sums over those tasks, and the aggregates
\* of the finished run are those of in-order completion.
C16_AggregationIsOrderIndependent ==
    /\ (run.loop = "closed" /\ run.pc \in { "pool", "done" }) =>
          /\ EachTaskOnce
          /\ \A cname \in SeqRange(RunCompliances), aname \in ClosedAlgos :
                /\ SameBag(run.results[cname][aname],
                           ClosedInOrder(Yielded, cname, aname, Len(ClosedTaskList)))
                /\ run.pc = "done" =>
                      run.aggs[cname][aname]
                          = aggregate_cl(ClosedInOrder(Yielded, cname, aname,
                                                       Len(ClosedTaskList)))
          /\ run.pc = "done" =>
                \A aname \in ClosedAlgos :
                   run.overall[aname]
                       = IF ClosedCombinedInOrder(aname) # << >>
                         THEN aggregate_cl(ClosedCombinedInOrder(aname)) ELSE None
    /\ (run.loop = "open" /\ run.pc \in { "pool", "done" }) =>
          /\ EachTaskOnce
          /\ \A pname \in SeqRange(RunProfiles), aname \in OpenAlgos :
                /\ SameBag(run.results[pname][aname],
                           OpenInOrder(Yielded, pname, aname, Len(OpenTaskList)))
                /\ run.coverage[pname][aname]
                      = CoverageInOrder(Yielded, pname, aname, Len(OpenTaskList))
                /\ run.pc = "done" =>
                      run.aggs[pname][aname]
                          = aggregate(OpenInOrder(Yielded, pname, aname,
                                                  Len(OpenTaskList)))
          /\ run.pc = "done" =>
                \A aname \in OpenAlgos :
                   run.overall[aname]
                       = IF OpenCombinedInOrder(aname) # << >>
                         THEN aggregate(OpenCombinedInOrder(aname)) ELSE None

\* a closed-loop run has finished whose tasks came back out of order, with
\* a list that holds two different results in another order than in-order
\* completion gives
C16_Witness ==
    /\ run.loop = "closed"
    /\ run.pc = "done"
    /\ run.yielded # ClosedTaskList
    /\ \E cname \in SeqRange(RunCompliances), aname \in ClosedAlgos :
          /\ Len(run.results[cname][aname]) >= 2
          /\ run.results[cname][aname]
                # ClosedInOrder(Yielded, cname, aname, Len(ClosedTaskList))
          /\ ~IsNone(run.aggs[cname][aname])

\* the tasks of a compliance profile whose week has ten polls or more
WithData(tasks, cname) ==
    { task \in tasks : task.cname = cname /\ Len(run.weeks[task].polls) >= 10 }

\* C17: compute_cl_stats gives None for a week of fewer than 10 polls, the
\* empty week included, and a record for a week of 10 polls or more;
\* run_closed_loop collects the records only, and the aggregate of an empty
\* list, per compliance profile and overall, is None.
C17_ShortWeeksAreNoData ==
    (run.loop = "closed" /\ run.pc \in { "pool", "done" }) =>
        /\ \A task \in Yielded, aname \in ClosedAlgos :
              IsNone(cl_worker(run.weeks, task).algo_results[aname])
                  <=> Len(run.weeks[task].polls) < 10
        /\ \A cname \in SeqRange(RunCompliances), aname \in ClosedAlgos :
              /\ Len(run.results[cname][aname])
                    = Cardinality(WithData(Yielded, cname))
              /\ run.pc = "done" =>
                    (IsNone(run.aggs[cname][aname])
                        <=> WithData(SeqRange(ClosedTaskList), cname) = { })
        /\ run.pc = "done" =>
              \A aname \in ClosedAlgos :
                 IsNone(run.overall[aname])
                    <=> \A cname \in SeqRange(RunCompliances) :
                           WithData(SeqRange(ClosedTaskList), cname) = { }

\* a finished closed-loop run with an empty week, a week of nine polls and a
\* week of ten, one compliance profile without any data and one with
C17_Witness ==
    /\ run.loop = "closed"
    /\ run.pc = "done"
    /\ \E t0, t9, t10 \in Yielded :
          /\ Len(run.weeks[t0].polls) = 0
          /\ Len(run.weeks[t9].polls) = 9
          /\ Len(run.weeks[t10].polls) = 10
    /\ \E c1, c2 \in SeqRange(RunCompliances) :
          /\ IsNone(run.aggs[c1]["Current"])
          /\ ~IsNone(run.aggs[c2]["Current"])

====
